---- MODULE Spec2Model ----
(***************************************************************************)
(* Bone correspondence subsystem of the player editor: the bone           *)
(* auto-mapper (autoMapBones), the animation retargeter                    *)
(* (retargetAnimationGroup), and the editing session that owns the         *)
(* mapping table (SidePanel / App).                                        *)
(*                                                                         *)
(* A bone name is a JavaScript string, modelled as the tuple of its        *)
(* characters, so that toLowerCase, replace and includes are computed      *)
(* character by character as String.prototype does.                        *)
(***************************************************************************)
EXTENDS Integers, Sequences, FiniteSets, TLC

VARIABLES
    sourceBoneNames,    \* autoMapBones: argument, string[]
    targetSkeleton,     \* autoMapBones / retargetAnimationGroup: argument, { bones: [{name}] }
    autoMapped,         \* autoMapBones: what the call returned and its locals
    autoMapDone,        \* autoMapBones has returned
    sourceAnimGroup,    \* retargetAnimationGroup: argument
    mapping,            \* retargetAnimationGroup: argument, Record<string, string>
    newAnimationGroup,  \* retargetAnimationGroup: the group it returns
    retargetDone,       \* retargetAnimationGroup has returned
    mappingTable,       \* App state: useState<Record<string, string>>({})
    logs,               \* useLogger state: LogEntry[]
    logCount,           \* number of addLog calls so far (stands for the entry id)
    readers,            \* FileReaders of handleLoadMapping whose onload is pending
    rawName,            \* normalizeBoneName: argument
    normName,           \* normalizeBoneName(rawName)
    renormName,         \* normalizeBoneName(normName)
    nameFeatures,       \* getBoneFeatures(normName)
    nameDone,           \* which of the three calls have returned
    scoreSource,        \* getScore: first argument, BoneFeatures
    scoreTarget,        \* getScore: second argument, BoneFeatures
    scoreValue,         \* getScore: the number it returned
    scoreDone,          \* getScore has returned
    baseSkeleton,       \* App state: useState<Skeleton | null>(null)
    retargetedGroups,   \* App state: useState<RetargetedAnimGroup[]>([])
    selectedAnimations, \* App state: useState<Set<string>>(new Set())
    scan,               \* scanAndAddAnimations: the invocation in flight, its closure and locals
    logHistory,         \* every message passed to addLog so far, oldest first
    logCalls,           \* addLog calls made by the logger's caller in this behaviour
    vmProps,            \* VisualMapper: the props of the latest render
    vmEffect,           \* VisualMapper: the effect in force and the props its closure captured
    targetHl,           \* VisualMapper: the highlighter of the left view
    sourceHl,           \* VisualMapper: the highlighter of the right view
    vmChanges,          \* VisualMapper: prop and skeleton changes made by the parent so far,
                        \* and whether a frame was rendered since the latest of them
    animationLinks,     \* App state: the animation name linked to each player action, or null
    test,               \* test-mode effect: playerState, currentAnim, cWasDown and the
                        \* play state of every animation group
    inputMap,           \* test-mode effect: the keys held down
    prevFrame,          \* whether C was down when the previous frame was rendered
    baseMeshes,         \* App state: the meshes of the base model
    sceneMeshes,        \* the undisposed base-model meshes of the scene
    meshCount,          \* base-model meshes imported so far
    loads,              \* loadBase invocations awaiting appendModelToScene
    headBoneName,       \* App state: the head bone selected, or null
    exported,           \* the latest call of exportGLB for the player
    userActions         \* handlers invoked by the user in this behaviour

vars == <<sourceBoneNames, targetSkeleton, autoMapped, autoMapDone,
          sourceAnimGroup, mapping, newAnimationGroup, retargetDone,
          mappingTable, logs, logCount, readers,
          rawName, normName, renormName, nameFeatures, nameDone,
          scoreSource, scoreTarget, scoreValue, scoreDone,
          baseSkeleton, retargetedGroups, selectedAnimations, scan,
          logHistory, logCalls,
          vmProps, vmEffect, targetHl, sourceHl, vmChanges,
          animationLinks, test, inputMap, prevFrame,
          baseMeshes, sceneMeshes, meshCount, loads, headBoneName, exported,
          userActions>>

autoMapVars  == <<sourceBoneNames, autoMapped, autoMapDone>>
retargetVars == <<sourceAnimGroup, mapping, newAnimationGroup, retargetDone>>
sessionVars  == <<mappingTable, logs, logCount, readers>>
featureVars  == <<rawName, normName, renormName, nameFeatures, nameDone>>
scoreVars    == <<scoreSource, scoreTarget, scoreValue, scoreDone>>
scanVars     == <<baseSkeleton, retargetedGroups, selectedAnimations, scan>>
loggerVars   == <<logHistory, logCalls>>

\* the variables of the components modelled on their own
mapperVars   == <<vmProps, vmEffect, targetHl, sourceHl, vmChanges>>
linkVars     == <<animationLinks>>
testVars     == <<test, inputMap, prevFrame>>
appVars      == <<baseMeshes, sceneMeshes, meshCount, loads, headBoneName, exported,
                 userActions>>
restVars == <<loggerVars, mapperVars, linkVars, testVars, appVars>>

----------------------------------------------------------------------------
(* Bounds of the model. *)

MaxSources == 2     \* longest source bone list drawn
MaxTargets == 2     \* most bones in a drawn target skeleton
MaxTracks  == 2     \* most tracks in a drawn source clip
MaxLogs    == 3     \* addLog calls in one behaviour of the session
MaxPending == 1     \* FileReaders pending at once
MaxNameLen == 3     \* longest bone name drawn letter by letter
MaxScanFiles == 2   \* most files handed to one scanAndAddAnimations call
MaxLogCalls == 4    \* addLog calls followed one by one
MaxHighlightChanges == 2  \* re-renders of the VisualMapper with other highlight props
MaxSkeletonChanges == 1   \* re-renders of the VisualMapper with other skeleton objects
MaxUserActions == 3 \* handlers the user invokes in one behaviour of the editor
MaxLoads == 2       \* loadBase calls in one behaviour of the editor

----------------------------------------------------------------------------
(* Strings. *)

UpperCase == <<"A", "B", "C", "D", "E", "F", "G", "H", "I", "J", "K", "L", "M", "N", "O", "P", "Q", "R", "S", "T", "U", "V", "W", "X", "Y", "Z">>
LowerCase == <<"a", "b", "c", "d", "e", "f", "g", "h", "i", "j", "k", "l", "m", "n", "o", "p", "q", "r", "s", "t", "u", "v", "w", "x", "y", "z">>

\* String.prototype.toLowerCase, one character
lowerChar(c) ==
    IF \E i \in 1..Len(UpperCase) : UpperCase[i] = c
    THEN LowerCase[CHOOSE i \in 1..Len(UpperCase) : UpperCase[i] = c]
    ELSE c

toLowerCase(s) == [i \in 1..Len(s) |-> lowerChar(s[i])]

\* String.prototype.includes
includes(s, sub) ==
    \E i \in 0..(Len(s) - Len(sub)) : \A j \in 1..Len(sub) : s[i + j] = sub[j]

\* The character class of the regular expression /[-_.:]/g
separators == {"-", "_", ".", ":"}

isSeparator(c) == c \in separators

keepChar(c) == ~isSeparator(c)

removeFirstSeparator(s) ==
    IF \E i \in 1..Len(s) : isSeparator(s[i])
    THEN LET first == CHOOSE i \in 1..Len(s) :
                          isSeparator(s[i]) /\ \A j \in 1..(i - 1) : ~isSeparator(s[j])
         IN  SubSeq(s, 1, first - 1) \o SubSeq(s, first + 1, Len(s))
    ELSE s

\* s.replace(/[-_.:]/g, ''): the g flag removes every match
removeSeparators(s) == SelectSeq(s, keepChar)

\* name.toLowerCase().replace(/[-_.:]/g, '')
normalizeBoneName(name) == removeSeparators(toLowerCase(name))

EmptyString == <<>>

----------------------------------------------------------------------------
(* Bone names used as inputs. *)

BoneMixamoLeftArm == <<"m", "i", "x", "a", "m", "o", "r", "i", "g", ":", "L", "e", "f", "t", "A", "r", "m">>  \* "mixamorig:LeftArm"
BoneMixamoRightArm == <<"m", "i", "x", "a", "m", "o", "r", "i", "g", ":", "R", "i", "g", "h", "t", "A", "r", "m">>  \* "mixamorig:RightArm"
BoneMixamoHead == <<"m", "i", "x", "a", "m", "o", "r", "i", "g", ":", "H", "e", "a", "d">>  \* "mixamorig:Head"
BoneLeftArm == <<"L", "e", "f", "t", "A", "r", "m">>  \* "LeftArm"
BoneRightArm == <<"R", "i", "g", "h", "t", "A", "r", "m">>  \* "RightArm"
BoneHead == <<"H", "e", "a", "d">>  \* "Head"
BoneSpine == <<"S", "p", "i", "n", "e">>  \* "Spine"
BoneBipLThigh == <<"B", "i", "p", "0", "1", "_", "L", "_", "T", "h", "i", "g", "h">>  \* "Bip01_L_Thigh"
BoneThighR == <<"t", "h", "i", "g", "h", ".", "R">>  \* "thigh.R"
BoneA == <<"A">>  \* "A"
BoneB == <<"B">>  \* "B"
BoneZ == <<"Z">>  \* "Z"

\* Source bone names drawn for autoMapBones
SourcePool == {BoneMixamoHead, BoneLeftArm, BoneRightArm, BoneBipLThigh, BoneSpine, BoneA}

\* Bone names drawn for the target skeleton of autoMapBones
TargetPool == {BoneLeftArm, BoneRightArm, BoneHead, BoneSpine, BoneThighR, BoneA}

\* Every name a feature is ever computed for
NamePool == SourcePool \cup TargetPool
            \cup {BoneMixamoLeftArm, BoneMixamoRightArm, BoneMixamoHead, BoneSpine, BoneB, BoneZ}

SeqsUpTo(S, n) == UNION {[1..k -> S] : k \in 0..n}

----------------------------------------------------------------------------
(* Feature extraction. *)

boneKeywordMap ==
  << [standard |-> "head", variations |-> << <<"h", "e", "a", "d">> >>],
     [standard |-> "neck", variations |-> << <<"n", "e", "c", "k">> >>],
     [standard |-> "spine", variations |-> << <<"s", "p", "i", "n", "e">>, <<"c", "h", "e", "s", "t">> >>],
     [standard |-> "hips", variations |-> << <<"h", "i", "p", "s">>, <<"p", "e", "l", "v", "i", "s">> >>],
     [standard |-> "leg", variations |-> << <<"l", "e", "g">>, <<"t", "h", "i", "g", "h">>, <<"s", "h", "i", "n">> >>],
     [standard |-> "knee", variations |-> << <<"k", "n", "e", "e">> >>],
     [standard |-> "foot", variations |-> << <<"f", "o", "o", "t">> >>],
     [standard |-> "toes", variations |-> << <<"t", "o", "e">>, <<"t", "o", "e", "s">> >>],
     [standard |-> "shoulder", variations |-> << <<"s", "h", "o", "u", "l", "d", "e", "r">>, <<"c", "l", "a", "v", "i", "c", "l", "e">>, <<"b", "r", "e", "a", "s", "t">>, <<"p", "e", "c">> >>],
     [standard |-> "arm", variations |-> << <<"a", "r", "m">>, <<"b", "i", "c", "e", "p">> >>],
     [standard |-> "elbow", variations |-> << <<"e", "l", "b", "o", "w">>, <<"f", "o", "r", "e", "a", "r", "m">> >>],
     [standard |-> "hand", variations |-> << <<"h", "a", "n", "d">>, <<"w", "r", "i", "s", "t">> >>],
     [standard |-> "finger", variations |-> << <<"f", "i", "n", "g", "e", "r">> >>],
     [standard |-> "thumb", variations |-> << <<"t", "h", "u", "m", "b">> >>],
     [standard |-> "index", variations |-> << <<"i", "n", "d", "e", "x">> >>],
     [standard |-> "middle", variations |-> << <<"m", "i", "d", "d", "l", "e">> >>],
     [standard |-> "ring", variations |-> << <<"r", "i", "n", "g">> >>],
     [standard |-> "pinky", variations |-> << <<"p", "i", "n", "k", "y">>, <<"l", "i", "t", "t", "l", "e">> >>] >>

sideIdentifiers ==
    [left  |-> << <<"l">>, <<"l", "e", "f", "t">> >>,
     right |-> << <<"r">>, <<"r", "i", "g", "h", "t">> >>]

\* some element of the list is a substring of the name
includesAny(normalizedName, list) ==
    \E i \in 1..Len(list) : includes(normalizedName, list[i])

detectSideRightFirst(normalizedName) ==
    IF includesAny(normalizedName, sideIdentifiers.right) THEN "right"
    ELSE IF includesAny(normalizedName, sideIdentifiers.left) THEN "left"
    ELSE "center"

\* The left loop runs first; the right loop runs only while side is still 'center'.
detectSide(normalizedName) ==
    IF includesAny(normalizedName, sideIdentifiers.left) THEN "left"
    ELSE IF includesAny(normalizedName, sideIdentifiers.right) THEN "right"
    ELSE "center"

detectKeywords(normalizedName) ==
    {boneKeywordMap[k].standard :
        k \in {k \in 1..Len(boneKeywordMap) :
                  includesAny(normalizedName, boneKeywordMap[k].variations)}}

getBoneFeatures(normalizedName) ==
    [keywords |-> detectKeywords(normalizedName),
     side     |-> detectSide(normalizedName)]

\* getBoneFeatures(normalizeBoneName(name)) for every name of the pool. Both
\* functions are pure, so the value the code recomputes for each pair is the
\* value tabulated here.
featuresTable == [n \in NamePool |-> getBoneFeatures(normalizeBoneName(n))]

featuresOf(name) == featuresTable[name]

----------------------------------------------------------------------------
(* Pairwise scorer. *)

SameSideBonus == 50
CenterSideBonus == 25
KeywordBonus == 20
TieBreakerBonus == 1
InvalidScore == -1
ScoreThreshold == 1

keywordMatchesOf(sourceFeatures, targetFeatures) ==
    Cardinality({k \in sourceFeatures.keywords : k \in targetFeatures.keywords})

keywordScoreTenPerMatch(sourceFeatures, targetFeatures) ==
    keywordMatchesOf(sourceFeatures, targetFeatures) * 10

keywordScore(sourceFeatures, targetFeatures) ==
    LET keywordMatches == keywordMatchesOf(sourceFeatures, targetFeatures)
    IN  keywordMatches * KeywordBonus
        + (IF /\ Cardinality(sourceFeatures.keywords) > 0
              /\ Cardinality(targetFeatures.keywords) > 0
              /\ keywordMatches = 0
           THEN TieBreakerBonus ELSE 0)

getScoreNoVeto(sourceFeatures, targetFeatures) ==
    (IF sourceFeatures.side = targetFeatures.side THEN SameSideBonus
     ELSE IF sourceFeatures.side = "center" \/ targetFeatures.side = "center"
          THEN CenterSideBonus
          ELSE 0)
    + keywordScore(sourceFeatures, targetFeatures)

getScore(sourceFeatures, targetFeatures) ==
    IF sourceFeatures.side = targetFeatures.side
    THEN SameSideBonus + keywordScore(sourceFeatures, targetFeatures)
    ELSE IF sourceFeatures.side = "center" \/ targetFeatures.side = "center"
         THEN CenterSideBonus + keywordScore(sourceFeatures, targetFeatures)
         ELSE InvalidScore

----------------------------------------------------------------------------
(* Auto-mapper. *)

\* {} as Record<string, string>
EmptyTable == [k \in {} |-> EmptyString]

\* mapping[key] = value
setEntry(table, key, value) ==
    [k \in (DOMAIN table) \cup {key} |-> IF k = key THEN value ELSE table[k]]

\* new Set<string>(items): the distinct items, in order of first insertion
newSet(items) ==
    LET F[i \in 0..Len(items)] ==
            IF i = 0 THEN <<>>
            ELSE IF \E j \in 1..Len(F[i - 1]) : F[i - 1][j] = items[i]
                 THEN F[i - 1]
                 ELSE Append(F[i - 1], items[i])
    IN  F[Len(items)]

\* targetBones.map(b => b.name)
boneNames(bones) == [i \in 1..Len(bones) |-> bones[i].name]

elements(seq) == {seq[i] : i \in 1..Len(seq)}

isRetainedAboveCenter(pair) == pair.score > CenterSideBonus

isRetainedAboveSameSide(pair) == pair.score > SameSideBonus

\* if (score > 1)
isRetained(pair) == pair.score > ScoreThreshold

\* Step 1: every source x target pair in enumeration order (source list outer,
\* target set inner), kept when its score is above the threshold.
scorePairs(sources, targetBoneNames) ==
    LET T == Len(targetBoneNames)
        every == [k \in 1..(Len(sources) * T) |->
                    LET sourceName == sources[((k - 1) \div T) + 1]
                        targetName == targetBoneNames[((k - 1) % T) + 1]
                    IN  [source |-> sourceName,
                         target |-> targetName,
                         score  |-> getScore(featuresOf(sourceName),
                                             featuresOf(targetName))]]
    IN  SelectSeq(every, isRetained)

keepsBeforeAscending(a, b) == a.score - b.score <= 0

keepsBeforeUnstable(a, b) == b.score - a.score < 0

\* the comparator (a, b) => b.score - a.score puts a before b when it is <= 0
keepsBefore(a, b) == b.score - a.score <= 0

\* Step 2: Array.prototype.sort is stable; insertion keeps equal scores in
\* their enumeration order.
sortPairs(pairs) ==
    LET insert(sorted, p) ==
            LET k == Cardinality({i \in 1..Len(sorted) : keepsBefore(sorted[i], p)})
            IN  SubSeq(sorted, 1, k) \o <<p>> \o SubSeq(sorted, k + 1, Len(sorted))
        F[i \in 0..Len(pairs)] ==
            IF i = 0 THEN <<>> ELSE insert(F[i - 1], pairs[i])
    IN  F[Len(pairs)]

canCommitSourceOnly(st, pair) == pair.source \notin st.mappedSources

canCommit(st, pair) ==
    pair.source \notin st.mappedSources /\ pair.target \notin st.usedTargets

\* Step 3: walk the sorted pairs, committing the best available matches first.
greedyPass(allPairs) ==
    LET F[i \in 0..Len(allPairs)] ==
            IF i = 0
            THEN [mapping       |-> EmptyTable,
                  mappedSources |-> {},
                  usedTargets   |-> {},
                  committed     |-> <<>>]
            ELSE LET st == F[i - 1]
                     pair == allPairs[i]
                 IN  IF canCommit(st, pair)
                     THEN [mapping       |-> setEntry(st.mapping, pair.source, pair.target),
                           mappedSources |-> st.mappedSources \cup {pair.source},
                           usedTargets   |-> st.usedTargets \cup {pair.target},
                           committed     |-> Append(st.committed, pair)]
                     ELSE st
    IN  F[Len(allPairs)]

fallbackEntryOnlyIfTargetExists(st, sourceName, targetBoneNames) ==
    IF sourceName \in st.mappedSources THEN st
    ELSE IF sourceName \in elements(targetBoneNames) /\ sourceName \notin st.usedTargets
         THEN [st EXCEPT !.mapping = setEntry(st.mapping, sourceName, sourceName),
                         !.usedTargets = st.usedTargets \cup {sourceName},
                         !.identical = st.identical \cup {sourceName}]
         ELSE st

fallbackEntryNormalized(st, sourceName, targetBoneNames) ==
    IF sourceName \in st.mappedSources THEN st
    ELSE [st EXCEPT !.mapping =
             setEntry(st.mapping, sourceName, normalizeBoneName(sourceName))]

\* Step 4, one source name: the body of the fallback loop.
fallbackEntry(st, sourceName, targetBoneNames) ==
    IF sourceName \in st.mappedSources THEN st
    ELSE IF sourceName \in elements(targetBoneNames) /\ sourceName \notin st.usedTargets
         THEN [st EXCEPT !.mapping = setEntry(st.mapping, sourceName, sourceName),
                         !.usedTargets = st.usedTargets \cup {sourceName},
                         !.identical = st.identical \cup {sourceName}]
         ELSE [st EXCEPT !.mapping = setEntry(st.mapping, sourceName, sourceName)]

fallbackPassFromSecond(greedy, sources, targetBoneNames) ==
    LET F[i \in 0..Len(sources)] ==
            IF i <= 1
            THEN [mapping       |-> greedy.mapping,
                  mappedSources |-> greedy.mappedSources,
                  usedTargets   |-> greedy.usedTargets,
                  identical     |-> {}]
            ELSE fallbackEntry(F[i - 1], sources[i], targetBoneNames)
    IN  F[Len(sources)]

\* Step 4: fallback for the source bones the greedy pass left unmapped.
\* identical records the names that took the 'target exists and is unused' branch.
fallbackPass(greedy, sources, targetBoneNames) ==
    LET F[i \in 0..Len(sources)] ==
            IF i = 0
            THEN [mapping       |-> greedy.mapping,
                  mappedSources |-> greedy.mappedSources,
                  usedTargets   |-> greedy.usedTargets,
                  identical     |-> {}]
            ELSE fallbackEntry(F[i - 1], sources[i], targetBoneNames)
    IN  F[Len(sources)]

\* The returned table, with the locals of the call.
autoMapBones(sources, skeleton) ==
    LET targetBoneNames == newSet(boneNames(skeleton.bones))
        allPairs == sortPairs(scorePairs(sources, targetBoneNames))
        greedy   == greedyPass(allPairs)
        final    == fallbackPass(greedy, sources, targetBoneNames)
    IN  [mapping         |-> final.mapping,
         targetBoneNames |-> targetBoneNames,
         allPairs        |-> allPairs,
         committed       |-> greedy.committed,
         greedyMapping   |-> greedy.mapping,
         mappedSources   |-> greedy.mappedSources,
         greedyTargets   |-> greedy.usedTargets,
         usedTargets     |-> final.usedTargets,
         identical       |-> final.identical]

\* autoMapped before the call
NotMapped ==
    [mapping         |-> EmptyTable,
     targetBoneNames |-> <<>>,
     allPairs        |-> <<>>,
     committed       |-> <<>>,
     greedyMapping   |-> EmptyTable,
     mappedSources   |-> {},
     greedyTargets   |-> {},
     usedTargets     |-> {},
     identical       |-> {}]

\* a skeleton whose bones carry the given names, in order
skeletonOf(names) == [bones |-> [i \in 1..Len(names) |-> [name |-> names[i], id |-> i]]]

----------------------------------------------------------------------------
(* BABYLON.AnimationGroup, as far as the retargeter uses it. *)

\* Number.MAX_VALUE on the frame axis
MAX_VALUE == 1000000

Min(a, b) == IF a <= b THEN a ELSE b
Max(a, b) == IF a >= b THEN a ELSE b

\* new BABYLON.AnimationGroup(name, scene): no tracks, an empty play range
createAnimationGroup(name) ==
    [name |-> name, targetedAnimations |-> <<>>, from |-> MAX_VALUE, to |-> -MAX_VALUE]

\* group.addTargetedAnimation(animation, target): appends the track and widens
\* the play range to the animation's first and last key
addTargetedAnimation(group, animation, target) ==
    [group EXCEPT
        !.targetedAnimations = Append(@, [animation |-> animation, target |-> target]),
        !.from = Min(@, animation.keys[1]),
        !.to   = Max(@, animation.keys[2])]

normalizeSkipped(group, beginFrame, endFrame) == group

\* group.normalize(beginFrame, endFrame): pads every track to the range and
\* sets the play range to it
normalize(group, beginFrame, endFrame) ==
    [group EXCEPT
        !.targetedAnimations =
            [i \in 1..Len(@) |->
                [@[i] EXCEPT !.animation.keys =
                    <<Min(@[1], beginFrame), Max(@[2], endFrame)>>]],
        !.from = beginFrame,
        !.to   = endFrame]

\* animation.clone(): a new animation with the same keys
clone(animation) == [id |-> 0, cloneOf |-> animation.id, keys |-> animation.keys]

----------------------------------------------------------------------------
(* Retargeter. *)

\* the value undefined, and a string value
Undefined == [defined |-> FALSE, value |-> EmptyString]
StringValue(s) == [defined |-> TRUE, value |-> s]

\* JavaScript truthiness of a string or undefined
truthy(v) == v.defined /\ v.value # EmptyString

\* table[key], undefined when the table has no such property
getEntry(table, key) ==
    IF key \in DOMAIN table THEN StringValue(table[key]) ELSE Undefined

mappedNameOrSelf(table, sourceBoneName) ==
    IF truthy(getEntry(table, sourceBoneName))
    THEN getEntry(table, sourceBoneName)
    ELSE StringValue(sourceBoneName)

\* const targetBoneName = mapping[sourceBoneName]
mappedName(table, sourceBoneName) == getEntry(table, sourceBoneName)

\* the result of find when no bone matches
NoBone == [name |-> EmptyString, id |-> 0]

sameNameIgnoringCase(a, b) == toLowerCase(a) = toLowerCase(b)

\* b.name === targetBoneName
sameName(a, b) == a = b

\* targetSkeleton.bones.find(b => b.name === targetBoneName): the first match
findBone(bones, targetBoneName) ==
    IF \E i \in 1..Len(bones) : sameName(bones[i].name, targetBoneName)
    THEN bones[CHOOSE i \in 1..Len(bones) :
                 /\ sameName(bones[i].name, targetBoneName)
                 /\ \A j \in 1..(i - 1) : ~sameName(bones[j].name, targetBoneName)]
    ELSE NoBone

anyBone(targetBone) == TRUE

\* if (targetBone)
boneFound(targetBone) == targetBone # NoBone

\* the body of the loop over sourceAnimGroup.targetedAnimations
retargetTrackKeepTarget(group, targetedAnim, skeleton, table) ==
    LET targetBoneName == mappedName(table, targetedAnim.target.name)
    IN  IF truthy(targetBoneName)
           /\ boneFound(findBone(skeleton.bones, targetBoneName.value))
        THEN addTargetedAnimation(group, clone(targetedAnim.animation), targetedAnim.target)
        ELSE group

retargetTrack(group, targetedAnim, skeleton, table) ==
    LET sourceAnimation == targetedAnim.animation
        sourceBoneName  == targetedAnim.target.name
        targetBoneName  == mappedName(table, sourceBoneName)
    IN  IF truthy(targetBoneName)
        THEN LET targetBone == findBone(skeleton.bones, targetBoneName.value)
             IN  IF boneFound(targetBone)
                 THEN addTargetedAnimation(group, clone(sourceAnimation), targetBone)
                 ELSE group
        ELSE group

retargetAnimationGroup(animGroup, skeleton, table) ==
    LET tracks == animGroup.targetedAnimations
        F[i \in 0..Len(tracks)] ==
            IF i = 0 THEN createAnimationGroup(animGroup.name)
            ELSE retargetTrack(F[i - 1], tracks[i], skeleton, table)
    IN  normalize(F[Len(tracks)], animGroup.from, animGroup.to)

mappingAfterTrackDefaulted(table, targetedAnim) ==
    LET sourceBoneName == targetedAnim.target.name
    IN  IF truthy(getEntry(table, sourceBoneName)) THEN table
        ELSE setEntry(table, sourceBoneName, sourceBoneName)

\* What one iteration of the loop leaves in the caller's mapping object: the
\* body reads mapping[sourceBoneName] and holds no assignment to the object.
mappingAfterTrack(table, targetedAnim) == table

\* The caller's mapping object when retargetAnimationGroup returns.
mappingAfterRetarget(animGroup, table) ==
    LET tracks == animGroup.targetedAnimations
        F[i \in 0..Len(tracks)] ==
            IF i = 0 THEN table
            ELSE mappingAfterTrack(F[i - 1], tracks[i])
    IN  F[Len(tracks)]

----------------------------------------------------------------------------
(* Inputs of the retargeter. *)

ClipBones == {BoneA, BoneB}
SkeletonBones == {BoneA, BoneB}
BoneLowerA == <<"a">>
MappingValues == {EmptyString, BoneA, BoneB, BoneZ, BoneLowerA}
KeyRanges == {<<0, 2>>, <<1, 3>>}

\* every table over some of the clip's bones
Tables == UNION {[K -> MappingValues] : K \in SUBSET ClipBones}

\* an imported clip: its play range is the one its tracks span
clipOf(tracks) ==
    LET F[i \in 0..Len(tracks)] ==
            IF i = 0 THEN createAnimationGroup("clip")
            ELSE addTargetedAnimation(F[i - 1],
                    [id |-> i, cloneOf |-> 0, keys |-> tracks[i].keys],
                    [name |-> tracks[i].bone, id |-> i])
    IN  F[Len(tracks)]

Clips == {clipOf(t) : t \in SeqsUpTo([bone : ClipBones, keys : KeyRanges], MaxTracks)}

----------------------------------------------------------------------------
(* Mapping files and JSON.parse. *)

\* A file's text is the sequence of its JSON tokens.
Punct(t) == [type |-> t, value |-> EmptyString]
Str(s)   == [type |-> "string", value |-> s]

SyntaxError == [ok |-> FALSE, value |-> EmptyTable]

\* members of an object literal, from token i on: "key": "value" (, ...)* }
RECURSIVE parseMembers(_, _, _)
parseMembers(text, i, table) ==
    IF /\ i + 3 <= Len(text)
       /\ text[i].type = "string"
       /\ text[i + 1].type = ":"
       /\ text[i + 2].type = "string"
    THEN LET next == setEntry(table, text[i].value, text[i + 2].value)
         IN  IF text[i + 3].type = "}"
             THEN IF i + 3 = Len(text) THEN [ok |-> TRUE, value |-> next]
                  ELSE SyntaxError
             ELSE IF text[i + 3].type = "," THEN parseMembers(text, i + 4, next)
                  ELSE SyntaxError
    ELSE SyntaxError

\* JSON.parse on the text of a mapping file: a flat object literal of strings,
\* or a SyntaxError
JSONparse(text) ==
    IF Len(text) >= 2 /\ text[1].type = "{"
    THEN IF text[2].type = "}"
         THEN IF Len(text) = 2 THEN [ok |-> TRUE, value |-> EmptyTable]
              ELSE SyntaxError
         ELSE parseMembers(text, 2, EmptyTable)
    ELSE SyntaxError

\* {"A": "B"}
FileSwap ==
    [name |-> "swap.json",
     text |-> <<Punct("{"), Str(BoneA), Punct(":"), Str(BoneB), Punct("}")>>]

\* {"A": "", "B": "B"}
FileUnmapA ==
    [name |-> "unmap.json",
     text |-> <<Punct("{"), Str(BoneA), Punct(":"), Str(EmptyString), Punct(","),
                Str(BoneB), Punct(":"), Str(BoneB), Punct("}")>>]

\* {"A": "B"      (truncated: no closing brace)
FileTruncated ==
    [name |-> "truncated.json",
     text |-> <<Punct("{"), Str(BoneA), Punct(":"), Str(BoneB)>>]

\* {"A": "B",}    (trailing comma)
FileTrailingComma ==
    [name |-> "comma.json",
     text |-> <<Punct("{"), Str(BoneA), Punct(":"), Str(BoneB), Punct(","), Punct("}")>>]

Files == {FileSwap, FileUnmapA, FileTruncated, FileTrailingComma}

----------------------------------------------------------------------------
(* Logger. *)

\* slice(0, 100)
LogLimit == 100

sliceNothing(seq, n) == seq

slice(seq, n) == SubSeq(seq, 1, Min(Len(seq), n))

LoadedMessage(file) == [text |-> "Loaded mapping from", arg |-> file.name]
ParseErrorMessage   == [text |-> "Error parsing mapping JSON", arg |-> "SyntaxError"]

\* setLogs(prevLogs => [newLog, ...prevLogs].slice(0, 100))
addLog(message) ==
    /\ logs' = slice(<<[id |-> logCount + 1, message |-> message]>> \o logs, LogLimit)
    /\ logCount' = logCount + 1

----------------------------------------------------------------------------
(* Editing session: loading a mapping file. *)

pendingReaders == LET RECURSIVE sum(_)
                      sum(S) == IF S = {} THEN 0
                                ELSE LET f == CHOOSE f \in S : TRUE
                                     IN  readers[f] + sum(S \ {f})
                  IN  sum(Files)

\* handleLoadMapping: a file was chosen; a FileReader starts reading it
handleLoadMapping(file) ==
    /\ pendingReaders < MaxPending
    /\ readers' = [readers EXCEPT ![file] = @ + 1]
    /\ UNCHANGED <<mappingTable, logs, logCount>>
    /\ UNCHANGED <<targetSkeleton, autoMapVars, retargetVars, featureVars, scoreVars, scanVars, restVars>>

readerOnloadResetOnError(file) ==
    /\ readers[file] > 0
    /\ logCount < MaxLogs
    /\ readers' = [readers EXCEPT ![file] = @ - 1]
    /\ LET json == JSONparse(file.text)
       IN  /\ mappingTable' = json.value
           /\ IF json.ok THEN addLog(LoadedMessage(file))
              ELSE addLog(ParseErrorMessage)
    /\ UNCHANGED <<targetSkeleton, autoMapVars, retargetVars, featureVars, scoreVars, scanVars, restVars>>

\* reader.onload: the text has been read; parse it and replace the table
readerOnload(file) ==
    /\ readers[file] > 0
    /\ logCount < MaxLogs
    /\ readers' = [readers EXCEPT ![file] = @ - 1]
    /\ LET json == JSONparse(file.text)
       IN  IF json.ok
           THEN /\ mappingTable' = json.value
                /\ addLog(LoadedMessage(file))
           ELSE /\ addLog(ParseErrorMessage)
                /\ UNCHANGED mappingTable
    /\ UNCHANGED <<targetSkeleton, autoMapVars, retargetVars, featureVars, scoreVars, scanVars, restVars>>

----------------------------------------------------------------------------
(* Editing session: the base skeleton and the rows of the mapping panel. *)

\* useState<Skeleton | null>(null)
NullSkeleton == [null |-> TRUE, bones |-> <<>>]

isNull(skeleton) == skeleton.null

\* a skeleton object that setBaseSkeleton installed
loadedSkeleton(names) == [null |-> FALSE, bones |-> skeletonOf(names).bones]

\* loadBase, skeleton branch: skeleton.bones.reduce((acc, bone) => { acc[bone.name] = bone.name }, {})
initialMapping(skeleton) ==
    [n \in elements(boneNames(skeleton.bones)) |-> n]

\* targetBoneOptions: none without a base skeleton; otherwise "-- Unmapped --"
\* (value "") and one option per base bone
targetBoneOptions ==
    IF isNull(baseSkeleton) THEN {}
    ELSE {EmptyString} \cup elements(boneNames(baseSkeleton.bones))

handleMappingChangeReplace(sourceBone, newTargetBone) ==
    /\ sourceBone \in DOMAIN mappingTable
    /\ newTargetBone \in targetBoneOptions
    /\ newTargetBone # mappingTable[sourceBone]
    /\ mappingTable' = setEntry(EmptyTable, sourceBone, newTargetBone)
    /\ UNCHANGED <<logs, logCount, readers, scanVars>>
    /\ UNCHANGED <<targetSkeleton, autoMapVars, retargetVars, featureVars, scoreVars, restVars>>

\* handleMappingChange: the Select of one row of the panel changed. There is
\* one row per entry of the table, and the options are targetBoneOptions.
handleMappingChange(sourceBone, newTargetBone) ==
    /\ sourceBone \in DOMAIN mappingTable
    /\ newTargetBone \in targetBoneOptions
    /\ newTargetBone # mappingTable[sourceBone]
    /\ mappingTable' = setEntry(mappingTable, sourceBone, newTargetBone)
    /\ UNCHANGED <<logs, logCount, readers, scanVars>>
    /\ UNCHANGED <<targetSkeleton, autoMapVars, retargetVars, featureVars, scoreVars, restVars>>

\* The Auto-Map button: the table becomes what autoMapBones returns for the
\* source bone names and the base skeleton.
onAutoMapBones(names) ==
    /\ ~isNull(baseSkeleton)
    /\ mappingTable' = autoMapBones(names, baseSkeleton).mapping
    /\ UNCHANGED <<logs, logCount, readers, scanVars>>
    /\ UNCHANGED <<targetSkeleton, autoMapVars, retargetVars, featureVars, scoreVars, restVars>>

----------------------------------------------------------------------------
(* Editing session: scanning animation files. *)

\* file.name.replace(/\.[^/.]+$/, ""): drops the last extension, a dot
\* followed to the end of the name by one or more characters other than / and .
stripExtension(fileName) ==
    LET dots == {i \in 1..(Len(fileName) - 1) :
                    /\ fileName[i] = "."
                    /\ \A j \in (i + 1)..Len(fileName) : fileName[j] \notin {"/", "."}}
    IN  IF dots = {} THEN fileName
        ELSE SubSeq(fileName, 1, (CHOOSE i \in dots : TRUE) - 1)

\* `${file.name.replace(...)} | ${sourceAnimGroup.name}`
retargetedName(file, sourceGroup) == <<stripExtension(file.name), " | ", sourceGroup.name>>

WalkGlb == <<"w", "a", "l", "k", ".", "g", "l", "b">>    \* "walk.glb"
PoseV2Glb == <<"p", "o", "s", "e", ".", "v", "2", ".", "g", "l", "b">>    \* "pose.v2.glb"

\* an animation file: its name and the animation groups an import of it yields
AnimFileWalk == [name  |-> WalkGlb,
                 clips |-> <<clipOf(<<[bone |-> BoneA, keys |-> <<0, 2>>],
                                      [bone |-> BoneB, keys |-> <<1, 3>>]>>)>>]
AnimFilePose == [name  |-> PoseV2Glb,
                 clips |-> <<clipOf(<<[bone |-> BoneB, keys |-> <<0, 2>>]>>)>>]
AnimFiles == {AnimFileWalk, AnimFilePose}

NoScan == [pc |-> "idle", files |-> <<>>, next |-> 1,
           mappingTable |-> EmptyTable, baseSkeleton |-> NullSkeleton,
           newRetargetedGroups |-> <<>>]

ScanErrorMessage     == [text |-> "Error: Load a base model with a skeleton first.", arg |-> ""]
ScanningMessage(n)   == [text |-> "Scanning animation file(s)", arg |-> n]
FoundMessage(n, f)   == [text |-> "Found animation(s). Retargeting", arg |-> <<n, f.name>>]
RetargetedMessage(g) == [text |-> "Retargeted", arg |-> g.name]
NoGroupsMessage(f)   == [text |-> "Warning: No animation groups found", arg |-> f.name]

\* several addLog calls of one handler, in call order
addLogs(messages) ==
    LET F[i \in 0..Len(messages)] ==
            IF i = 0 THEN logs
            ELSE slice(<<[id |-> logCount + i, message |-> messages[i]]>> \o F[i - 1], LogLimit)
    IN  /\ logs' = F[Len(messages)]
        /\ logCount' = logCount + Len(messages)

liveTable(invocation) == mappingTable

\* the mappingTable the body of scanAndAddAnimations reads: the const of the
\* render whose callback was invoked, fixed for the whole invocation
capturedTable(invocation) == invocation.mappingTable

\* the body of the inner loop for one animation group of a file
retargetedGroupOf(file, sourceGroup, invocation) ==
    LET retargetedGroup ==
            retargetAnimationGroup(sourceGroup, invocation.baseSkeleton,
                                   capturedTable(invocation))
    IN  [name |-> retargetedName(file, sourceGroup),
         targetedAnimations |-> retargetedGroup.targetedAnimations,
         from |-> retargetedGroup.from,
         to   |-> retargetedGroup.to,
         meta |-> [sourceFileName |-> file.name]]

\* setRetargetedGroups(prev => [...prev, ...new]) and
\* setSelectedAnimations(prev => prev + the names of the new groups)
finishScan(newRetargetedGroups) ==
    /\ retargetedGroups' = retargetedGroups \o newRetargetedGroups
    /\ selectedAnimations' = selectedAnimations
                                \cup {g.name : g \in elements(newRetargetedGroups)}

\* scanAndAddAnimations(files) up to its first await
scanAndAddAnimations(files) ==
    /\ scan.pc = "idle"
    /\ IF isNull(baseSkeleton)
       THEN /\ addLog(ScanErrorMessage)
            /\ UNCHANGED scanVars
       ELSE /\ addLog(ScanningMessage(Len(files)))
            /\ IF files = <<>>
               THEN /\ finishScan(<<>>)
                    /\ scan' = [NoScan EXCEPT !.pc = "done"]
               ELSE /\ scan' = [pc |-> "importing", files |-> files, next |-> 1,
                                mappingTable |-> mappingTable,
                                baseSkeleton |-> baseSkeleton,
                                newRetargetedGroups |-> <<>>]
                    /\ UNCHANGED <<retargetedGroups, selectedAnimations>>
            /\ UNCHANGED baseSkeleton
    /\ UNCHANGED <<mappingTable, readers>>
    /\ UNCHANGED <<targetSkeleton, autoMapVars, retargetVars, featureVars, scoreVars, restVars>>

\* await appendModelToScene(file, ...) of the current file settles: with the
\* file's animation groups, or with none when the import threw. The loop body
\* runs, then either the next import starts or the invocation finishes.
importSettled(imported) ==
    /\ scan.pc = "importing"
    /\ LET file   == scan.files[scan.next]
           newAG  == IF imported THEN file.clips ELSE <<>>
           groups == [k \in 1..Len(newAG) |-> retargetedGroupOf(file, newAG[k], scan)]
           all    == scan.newRetargetedGroups \o groups
       IN  /\ IF Len(newAG) > 0
              THEN addLogs(<<FoundMessage(Len(newAG), file)>>
                           \o [k \in 1..Len(newAG) |-> RetargetedMessage(newAG[k])])
              ELSE addLog(NoGroupsMessage(file))
           /\ IF scan.next = Len(scan.files)
              THEN /\ finishScan(all)
                   /\ scan' = [scan EXCEPT !.pc = "done", !.next = @ + 1,
                                           !.newRetargetedGroups = all]
              ELSE /\ scan' = [scan EXCEPT !.next = @ + 1, !.newRetargetedGroups = all]
                   /\ UNCHANGED <<retargetedGroups, selectedAnimations>>
    /\ UNCHANGED <<mappingTable, readers, baseSkeleton>>
    /\ UNCHANGED <<targetSkeleton, autoMapVars, retargetVars, featureVars, scoreVars, restVars>>

----------------------------------------------------------------------------
(* Specifications. *)

\* values of the variables a specification does not use
IdleAutoMap ==
    /\ sourceBoneNames = <<>>
    /\ autoMapped = NotMapped
    /\ autoMapDone = FALSE

IdleRetarget ==
    /\ sourceAnimGroup = createAnimationGroup("clip")
    /\ mapping = EmptyTable
    /\ newAnimationGroup = createAnimationGroup("clip")
    /\ retargetDone = FALSE

IdleSession ==
    /\ mappingTable = EmptyTable
    /\ logs = <<>>
    /\ logCount = 0
    /\ readers = [f \in Files |-> 0]

IdleFeatures ==
    /\ rawName = EmptyString
    /\ normName = EmptyString
    /\ renormName = EmptyString
    /\ nameFeatures = getBoneFeatures(EmptyString)
    /\ nameDone = {}

IdleScore ==
    /\ scoreSource = getBoneFeatures(EmptyString)
    /\ scoreTarget = getBoneFeatures(EmptyString)
    /\ scoreValue = 0
    /\ scoreDone = FALSE

IdleScan ==
    /\ baseSkeleton = NullSkeleton
    /\ retargetedGroups = <<>>
    /\ selectedAnimations = {}
    /\ scan = NoScan

IdleLogger ==
    /\ logHistory = <<>>
    /\ logCalls = 0

\* VisualMapper not rendered
NoHighlighter == [created |-> FALSE, enabled |-> FALSE, bone |-> NoBone]
NoEffect == [active |-> FALSE, baseSkeleton |-> 0, sourceSkeleton |-> 0,
             meshWithSkeleton |-> FALSE,
             highlightedTargetBoneName |-> Undefined,
             highlightedSourceBoneName |-> Undefined]

IdleMapper ==
    /\ vmProps = [mounted |-> FALSE, baseSkeleton |-> 0, sourceSkeleton |-> 0,
                  meshWithSkeleton |-> FALSE,
                  highlightedTargetBoneName |-> Undefined,
                  highlightedSourceBoneName |-> Undefined]
    /\ vmEffect = NoEffect
    /\ targetHl = NoHighlighter
    /\ sourceHl = NoHighlighter
    /\ vmChanges = [highlight |-> 0, skeleton |-> 0, framed |-> FALSE]

\* export const playerActions
playerActions == <<"idle", "walk", "run", "strafeLeft", "strafeRight", "turnLeft",
                   "turnRight", "standingToCrouch", "crouchToStanding",
                   "crouchIdle", "crouchWalk">>

PlayerAction == elements(playerActions)

\* playerActions.reduce((acc, action) => { acc[action] = null; return acc }, {})
initialAnimationLinks == [action \in PlayerAction |-> Undefined]

IdleLinks == animationLinks = initialAnimationLinks

\* the keys the test-mode effect reads
TestKeys == {"w", "s", "a", "d", "shift", "c"}

\* editorMode is 'editor': no closure, no key listeners
NoTest == [active |-> FALSE, playerState |-> "standing", currentAnim |-> 0,
           cWasDown |-> FALSE, anims |-> <<>>]

IdleTest ==
    /\ test = NoTest
    /\ inputMap = [k \in TestKeys |-> FALSE]
    /\ prevFrame = [rendered |-> FALSE, cIsDown |-> FALSE]

\* exportGLB not called yet
NoExport == [called |-> FALSE, pending |-> FALSE, nodes |-> <<>>, headCam |-> FALSE,
             animationGroups |-> {}, animationLinks |-> initialAnimationLinks,
             retargetedGroups |-> <<>>]

\* App after construction, as far as the handlers below use it
IdleApp ==
    /\ baseMeshes = <<>>
    /\ sceneMeshes = {}
    /\ meshCount = 0
    /\ loads = [calls |-> 0, awaiting |-> {}]
    /\ headBoneName = Undefined
    /\ exported = NoExport
    /\ userActions = 0

IdleRest == IdleLogger /\ IdleMapper /\ IdleLinks /\ IdleTest /\ IdleApp

\* every variable of the mapper, the retargeter and the editing session idle
IdleCore ==
    /\ targetSkeleton = skeletonOf(<<>>)
    /\ IdleAutoMap
    /\ IdleRetarget
    /\ IdleSession
    /\ IdleFeatures
    /\ IdleScore
    /\ IdleScan

coreVars == <<targetSkeleton, autoMapVars, retargetVars, sessionVars,
              featureVars, scoreVars, scanVars>>

\* The editing session after construction: no skeleton, an empty table, no logs.
Init ==
    /\ targetSkeleton = skeletonOf(<<>>)
    /\ IdleAutoMap
    /\ IdleRetarget
    /\ IdleSession
    /\ IdleFeatures
    /\ IdleScore
    /\ IdleScan
    /\ IdleRest

Next ==
    \/ \E file \in Files : handleLoadMapping(file)
    \/ \E file \in Files : readerOnload(file)

Spec == Init /\ [][Next]_vars

\* The inputs of the Mixamo scenario
ScenarioSources == <<BoneMixamoLeftArm, BoneMixamoRightArm, BoneMixamoHead>>
ScenarioTargets == <<BoneLeftArm, BoneRightArm, BoneHead, BoneSpine>>

\* The inputs of the opposite-side scenario
ThighSources == <<BoneBipLThigh>>
ThighTargets == <<BoneThighR>>

AutoMapInputs ==
    (SeqsUpTo(SourcePool, MaxSources) \X SeqsUpTo(TargetPool, MaxTargets))
    \cup {<<ScenarioSources, ScenarioTargets>>, <<ThighSources, ThighTargets>>}

\* autoMapBones applied to every input drawn
InitAutoMap ==
    /\ \E input \in AutoMapInputs :
          /\ sourceBoneNames = input[1]
          /\ targetSkeleton = skeletonOf(input[2])
    /\ autoMapped = NotMapped
    /\ autoMapDone = FALSE
    /\ IdleRetarget
    /\ IdleSession
    /\ IdleFeatures
    /\ IdleScore
    /\ IdleScan
    /\ IdleRest

callAutoMapBones ==
    /\ ~autoMapDone
    /\ autoMapped' = autoMapBones(sourceBoneNames, targetSkeleton)
    /\ autoMapDone' = TRUE
    /\ UNCHANGED <<sourceBoneNames, targetSkeleton, retargetVars, sessionVars, featureVars, scoreVars, scanVars, restVars>>

NextAutoMap == callAutoMapBones

SpecAutoMap == InitAutoMap /\ [][NextAutoMap]_vars

\* retargetAnimationGroup applied to every clip, skeleton and table drawn
InitRetarget ==
    /\ sourceAnimGroup \in Clips
    /\ \E names \in SeqsUpTo(SkeletonBones, MaxTargets) : targetSkeleton = skeletonOf(names)
    /\ mapping \in Tables
    /\ newAnimationGroup = createAnimationGroup("clip")
    /\ retargetDone = FALSE
    /\ IdleAutoMap
    /\ IdleSession
    /\ IdleFeatures
    /\ IdleScore
    /\ IdleScan
    /\ IdleRest

callRetargetAnimationGroup ==
    /\ ~retargetDone
    /\ newAnimationGroup' = retargetAnimationGroup(sourceAnimGroup, targetSkeleton, mapping)
    /\ mapping' = mappingAfterRetarget(sourceAnimGroup, mapping)
    /\ retargetDone' = TRUE
    /\ UNCHANGED <<sourceAnimGroup, targetSkeleton, autoMapVars, sessionVars, featureVars, scoreVars, scanVars, restVars>>

NextRetarget == callRetargetAnimationGroup

SpecRetarget == InitRetarget /\ [][NextRetarget]_vars

----------------------------------------------------------------------------
(* The session once a base model with bones A and B has loaded: the table    *)
(* is the default 1:1 mapping, and the log holds what start-up and loadBase  *)
(* wrote. One scanAndAddAnimations invocation is followed from its call to   *)
(* its end, with mapping edits, mapping-file loads and auto-map in between.  *)

StartupMessages ==
    << [text |-> "Generated default 1:1 bone mapping. You can now save it.", arg |-> ""],
       [text |-> "Base skeleton loaded", arg |-> 2],
       [text |-> "Loading map", arg |-> ""],
       [text |-> "Loading base model", arg |-> ""],
       [text |-> "Loading default models...", arg |-> ""],
       [text |-> "Scene ready.", arg |-> ""] >>

\* newest first; the entries carry stamps older than any the session adds
StartupLogs ==
    [i \in 1..Len(StartupMessages) |-> [id |-> 1 - i, message |-> StartupMessages[i]]]

ScanSkeleton == loadedSkeleton(<<BoneA, BoneB>>)

\* source bone lists the Auto-Map button is pressed with
ScanSourceLists == {<<BoneB, BoneA>>}

\* a FileList of the file input: distinct files, in any order
ScanFileLists ==
    {files \in SeqsUpTo(AnimFiles, MaxScanFiles) :
        \A i \in 1..Len(files) : \A j \in 1..Len(files) : files[i] = files[j] => i = j}

\* mapping files chosen during the scan
ScanMappingFiles == {FileSwap}

InitScan ==
    /\ baseSkeleton = ScanSkeleton
    /\ mappingTable = initialMapping(ScanSkeleton)
    /\ logs = StartupLogs
    /\ logCount = 0
    /\ readers = [f \in Files |-> 0]
    /\ retargetedGroups = <<>>
    /\ selectedAnimations = {}
    /\ scan = NoScan
    /\ targetSkeleton = skeletonOf(<<>>)
    /\ IdleAutoMap
    /\ IdleRetarget
    /\ IdleFeatures
    /\ IdleScore
    /\ IdleRest

NextScan ==
    \/ \E files \in ScanFileLists : scanAndAddAnimations(files)
    \/ \E imported \in BOOLEAN : importSettled(imported)
    \/ \E sourceBone \in DOMAIN mappingTable : \E newTargetBone \in targetBoneOptions :
          handleMappingChange(sourceBone, newTargetBone)
    \/ \E file \in ScanMappingFiles : handleLoadMapping(file)
    \/ \E file \in ScanMappingFiles : readerOnload(file)
    \/ \E names \in ScanSourceLists : onAutoMapBones(names)

SpecScan == InitScan /\ [][NextScan]_vars

----------------------------------------------------------------------------
(* useLogger on its own: a log that already went through some addLog calls  *)
(* receives further calls, each with a message of the caller's choosing.    *)

LogMessages == {[text |-> "a", arg |-> ""], [text |-> "b", arg |-> ""]}

\* the message of the j-th of the earlier calls
earlierMessage(j) == [text |-> (IF j % 2 = 0 THEN "a" ELSE "b"), arg |-> ""]

\* the log after n <= 100 earlier calls, each of which put its entry first
\* and cut nothing off
logsAfter(n) == [i \in 1..n |-> [id |-> n - i + 1, message |-> earlierMessage(n - i + 1)]]

\* how many calls came before: none, or enough to stand at the limit
EarlierCalls == {0, LogLimit - 2, LogLimit - 1, LogLimit}

InitLogger ==
    /\ \E n \in EarlierCalls :
          /\ logs = logsAfter(n)
          /\ logCount = n
          /\ logHistory = [j \in 1..n |-> earlierMessage(j)]
    /\ logCalls = 0
    /\ mappingTable = EmptyTable
    /\ readers = [f \in Files |-> 0]
    /\ targetSkeleton = skeletonOf(<<>>)
    /\ IdleAutoMap
    /\ IdleRetarget
    /\ IdleFeatures
    /\ IdleScore
    /\ IdleScan
    /\ IdleMapper
    /\ IdleLinks
    /\ IdleTest
    /\ IdleApp

callAddLog(message) ==
    /\ logCalls < MaxLogCalls
    /\ addLog(message)
    /\ logHistory' = Append(logHistory, message)
    /\ logCalls' = logCalls + 1
    /\ UNCHANGED <<mappingTable, readers>>
    /\ UNCHANGED <<targetSkeleton, autoMapVars, retargetVars, featureVars, scoreVars, scanVars>>
    /\ UNCHANGED <<mapperVars, linkVars, testVars, appVars>>

NextLogger == \E message \in LogMessages : callAddLog(message)

SpecLogger == InitLogger /\ [][NextLogger]_vars

----------------------------------------------------------------------------
(* VisualMapper: the component is rendered with two skeletons and the two   *)
(* highlight props; its effect builds the views and registers               *)
(* updateHighlights for every render frame.                                 *)

\* the bones of the skeleton objects the parent passes, by object identity
VmBones(skeleton) == skeletonOf(<<BoneA, BoneB>>).bones

\* highlightedTargetBoneName / highlightedSourceBoneName: string | null
HighlightNames == {Undefined, StringValue(BoneA), StringValue(BoneB), StringValue(BoneZ)}

\* skeleton.bones.find(b => b.name === name), name possibly null
findHighlighted(bones, name) ==
    IF name.defined THEN findBone(bones, name.value) ELSE NoBone

\* lines 124-135 and 137-147: one highlighter after updateHighlights
updateHighlight(hl, bone, attachable) ==
    IF boneFound(bone) /\ attachable
    THEN [hl EXCEPT !.bone = bone, !.enabled = TRUE]
    ELSE [hl EXCEPT !.enabled = FALSE]

\* updateHighlights as the closure of the effect sees it: the skeletons, the
\* meshes and the two names are the constants of the render that ran the effect
updateHighlights(effect, tHl, sHl) ==
    /\ targetHl' = updateHighlight(tHl,
                        findHighlighted(VmBones(effect.baseSkeleton), effect.highlightedTargetBoneName),
                        effect.meshWithSkeleton)
    /\ sourceHl' = updateHighlight(sHl,
                        findHighlighted(VmBones(effect.sourceSkeleton), effect.highlightedSourceBoneName),
                        TRUE)

\* the closure of an effect run during the render with these props
effectOf(props) ==
    [active |-> TRUE,
     baseSkeleton |-> props.baseSkeleton,
     sourceSkeleton |-> props.sourceSkeleton,
     meshWithSkeleton |-> props.meshWithSkeleton,
     highlightedTargetBoneName |-> props.highlightedTargetBoneName,
     highlightedSourceBoneName |-> props.highlightedSourceBoneName]

\* createHighlighter: a sphere, enabled, attached to nothing
createHighlighter == [created |-> TRUE, enabled |-> TRUE, bone |-> NoBone]

\* lines 24-154: the effect body, run after the commit of a render
runEffect(props) ==
    /\ vmEffect' = effectOf(props)
    /\ updateHighlights(effectOf(props), createHighlighter, createHighlighter)

InitMapper ==
    /\ \E t \in HighlightNames, src \in HighlightNames, mesh \in BOOLEAN :
          vmProps = [mounted |-> TRUE, baseSkeleton |-> 1, sourceSkeleton |-> 1,
                     meshWithSkeleton |-> mesh,
                     highlightedTargetBoneName |-> t,
                     highlightedSourceBoneName |-> src]
    /\ vmEffect = NoEffect
    /\ targetHl = NoHighlighter
    /\ sourceHl = NoHighlighter
    /\ vmChanges = [highlight |-> 0, skeleton |-> 0, framed |-> FALSE]
    /\ IdleCore
    /\ IdleLogger
    /\ IdleLinks
    /\ IdleTest
    /\ IdleApp

mapperFrame == <<coreVars, loggerVars, linkVars, testVars, appVars>>

\* the first run of the effect, after the component mounted
mountVisualMapper ==
    /\ vmProps.mounted
    /\ ~vmEffect.active
    /\ runEffect(vmProps)
    /\ UNCHANGED <<vmProps, vmChanges>>
    /\ UNCHANGED mapperFrame

\* the parent renders the component with other highlight props: the
\* dependencies [baseSkeleton, sourceSkeleton] are the same, the effect is kept
changeHighlight(t, src) ==
    /\ vmEffect.active
    /\ vmChanges.highlight < MaxHighlightChanges
    /\ <<t, src>> # <<vmProps.highlightedTargetBoneName, vmProps.highlightedSourceBoneName>>
    /\ vmProps' = [vmProps EXCEPT !.highlightedTargetBoneName = t,
                                  !.highlightedSourceBoneName = src]
    /\ vmChanges' = [vmChanges EXCEPT !.highlight = @ + 1, !.framed = FALSE]
    /\ UNCHANGED <<vmEffect, targetHl, sourceHl>>
    /\ UNCHANGED mapperFrame

\* the parent renders the component with other skeleton objects: the cleanup
\* disposes the highlighters and the effect runs again in the new render
changeSkeletons ==
    /\ vmEffect.active
    /\ vmChanges.skeleton < MaxSkeletonChanges
    /\ vmProps' = [vmProps EXCEPT !.baseSkeleton = @ + 1, !.sourceSkeleton = @ + 1]
    /\ vmChanges' = [vmChanges EXCEPT !.skeleton = @ + 1, !.framed = FALSE]
    /\ runEffect(vmProps')
    /\ UNCHANGED mapperFrame

\* mainScene.onBeforeRenderObservable fires the registered updateHighlights
renderFrame ==
    /\ vmEffect.active
    /\ updateHighlights(vmEffect, targetHl, sourceHl)
    /\ vmChanges' = [vmChanges EXCEPT !.framed = TRUE]
    /\ UNCHANGED <<vmProps, vmEffect>>
    /\ UNCHANGED mapperFrame

NextMapper ==
    \/ mountVisualMapper
    \/ \E t \in HighlightNames, src \in HighlightNames : changeHighlight(t, src)
    \/ changeSkeletons
    \/ renderFrame

SpecMapper == InitMapper /\ [][NextMapper]_vars

----------------------------------------------------------------------------
(* First-person test mode: the effect of App that runs while editorMode is  *)
(* 'test'. Animation groups are identified by their position in             *)
(* retargetedGroups, 0 standing for null.                                   *)

\* getAnim: name ? retargetedGroups.find(ag => ag.name === name) || null : null
getAnim(groups, name) ==
    IF truthy(name) /\ \E i \in 1..Len(groups) : groups[i].name = name.value
    THEN CHOOSE i \in 1..Len(groups) :
            /\ groups[i].name = name.value
            /\ \A j \in 1..(i - 1) : groups[j].name # name.value
    ELSE 0

\* currentAnim?.stop()
stopAnim(anims, g) ==
    IF g = 0 THEN anims ELSE [anims EXCEPT ![g].playing = FALSE]

\* animGroup.play(loop)
playAnim(anims, g, loop) == [anims EXCEPT ![g].playing = TRUE, ![g].loop = loop]

\* the onEnd callbacks of lines 1060-1062 and 1065-1067
OnEndToCrouch == [from |-> "to_crouch", to |-> "crouching"]
OnEndToStand  == [from |-> "to_stand", to |-> "standing"]

\* if (playerState === from) playerState = to
runOnEnd(m, onEnd) ==
    IF m.playerState = onEnd.from THEN [m EXCEPT !.playerState = onEnd.to] ELSE m

\* lines 996-1003
playAnimLoop(m, groups, links, animName) ==
    LET named == getAnim(groups, animName)
        animGroup == IF named # 0 THEN named ELSE getAnim(groups, links["idle"])
    IN  IF animGroup # 0 /\ animGroup # m.currentAnim
        THEN [m EXCEPT !.anims = playAnim(stopAnim(@, m.currentAnim), animGroup, TRUE),
                       !.currentAnim = animGroup]
        ELSE m

\* lines 1005-1017
playAnimOnce(m, groups, animName, onEnd) ==
    LET animGroup == getAnim(groups, animName)
    IN  IF animGroup # 0
        THEN IF animGroup # m.currentAnim
             THEN [m EXCEPT !.anims = [playAnim(stopAnim(@, m.currentAnim), animGroup, FALSE)
                                         EXCEPT ![animGroup].onEnd = Append(@, onEnd)],
                            !.currentAnim = animGroup]
             ELSE m
        ELSE runOnEnd(m, onEnd)

toggleCrouchOnLevel(m, cIsDown) ==
    IF cIsDown
    THEN IF m.playerState = "standing" THEN [m EXCEPT !.playerState = "to_crouch"]
         ELSE IF m.playerState = "crouching" THEN [m EXCEPT !.playerState = "to_stand"]
         ELSE m
    ELSE m

\* lines 1034-1037
toggleCrouch(m, cIsDown) ==
    IF cIsDown /\ ~m.cWasDown
    THEN IF m.playerState = "standing" THEN [m EXCEPT !.playerState = "to_crouch"]
         ELSE IF m.playerState = "crouching" THEN [m EXCEPT !.playerState = "to_stand"]
         ELSE m
    ELSE m

\* lines 1045-1069: the switch on playerState
playForState(m, groups, links, keys, turn) ==
    LET isMovingForward  == keys["w"]
        isMovingBackward == keys["s"]
        isStrafingLeft   == keys["a"]
        isStrafingRight  == keys["d"]
        isMoving   == isMovingForward \/ isMovingBackward \/ isStrafingLeft \/ isStrafingRight
        isSprinting == keys["shift"]
    IN  CASE m.playerState = "standing" ->
                playAnimLoop(m, groups, links,
                    IF isSprinting /\ isMovingForward THEN links["run"]
                    ELSE IF isMovingForward \/ isMovingBackward THEN links["walk"]
                    ELSE IF isStrafingLeft THEN links["strafeLeft"]
                    ELSE IF isStrafingRight THEN links["strafeRight"]
                    ELSE IF turn = "left" THEN links["turnLeft"]
                    ELSE IF turn = "right" THEN links["turnRight"]
                    ELSE links["idle"])
          [] m.playerState = "crouching" ->
                playAnimLoop(m, groups, links,
                    IF isMoving THEN links["crouchWalk"] ELSE links["crouchIdle"])
          [] m.playerState = "to_crouch" ->
                playAnimOnce(m, groups, links["standingToCrouch"], OnEndToCrouch)
          [] m.playerState = "to_stand" ->
                playAnimOnce(m, groups, links["crouchToStanding"], OnEndToStand)

\* the onBeforeRender observer, lines 1021-1070, as far as it touches the
\* player state and the animations
beforeRender(m, groups, links, keys, turn) ==
    LET cIsDown == keys["c"]
        toggled == [toggleCrouch(m, cIsDown) EXCEPT !.cWasDown = cIsDown]
    IN  playForState(toggled, groups, links, keys, turn)

\* the groups of the test scene
AnimX == <<"X">>
AnimY == <<"Y">>
testGroup(name) ==
    [createAnimationGroup(name) EXCEPT !.from = 0, !.to = 1]

TestGroups == <<testGroup(AnimX), testGroup(AnimY)>>

\* the links the user set before entering test mode: the actions listed are
\* linked to nothing, to X or to Y, the others to nothing
LinkedActions == {"idle", "walk", "standingToCrouch", "crouchToStanding", "crouchIdle"}
LinkValues == {Undefined, StringValue(AnimX), StringValue(AnimY)}
TestLinks ==
    {[action \in PlayerAction |->
        IF action \in LinkedActions THEN f[action] ELSE Undefined] :
     f \in [LinkedActions -> LinkValues]}

\* the keys pressed and released during the test, and the camera turns
PressedKeys == {"c", "w"}
Turns == {"none", "left"}

\* the effect body up to the registration of the observers, lines 981-992
InitTest ==
    /\ animationLinks \in TestLinks
    /\ retargetedGroups = TestGroups
    /\ selectedAnimations = {AnimX, AnimY}
    /\ baseSkeleton = loadedSkeleton(<<BoneA>>)
    /\ scan = NoScan
    /\ test = [active |-> TRUE, playerState |-> "standing", currentAnim |-> 0,
               cWasDown |-> FALSE,
               anims |-> [i \in 1..Len(TestGroups) |->
                            [playing |-> FALSE, loop |-> FALSE, onEnd |-> <<>>]]]
    /\ inputMap = [k \in TestKeys |-> FALSE]
    /\ prevFrame = [rendered |-> FALSE, cIsDown |-> FALSE]
    /\ targetSkeleton = skeletonOf(<<>>)
    /\ IdleAutoMap
    /\ IdleRetarget
    /\ IdleSession
    /\ IdleFeatures
    /\ IdleScore
    /\ IdleLogger
    /\ IdleMapper
    /\ IdleApp

testFrame == <<coreVars, loggerVars, mapperVars, linkVars, appVars>>

\* onKeyDown: inputMap[e.key.toLowerCase()] = true
onKeyDown(key) ==
    /\ test.active
    /\ inputMap' = [inputMap EXCEPT ![key] = TRUE]
    /\ UNCHANGED <<test, prevFrame>>
    /\ UNCHANGED testFrame

\* onKeyUp: inputMap[e.key.toLowerCase()] = false
onKeyUp(key) ==
    /\ test.active
    /\ inputMap' = [inputMap EXCEPT ![key] = FALSE]
    /\ UNCHANGED <<test, prevFrame>>
    /\ UNCHANGED testFrame

\* scene.onBeforeRenderObservable fires the observer of lines 1021-1093
onBeforeRender(turn) ==
    /\ test.active
    /\ test' = beforeRender(test, retargetedGroups, animationLinks, inputMap, turn)
    /\ prevFrame' = [rendered |-> TRUE, cIsDown |-> inputMap["c"]]
    /\ UNCHANGED inputMap
    /\ UNCHANGED testFrame

\* a group played without loop reaches its last frame:
\* onAnimationGroupEndObservable notifies the observers added once
animationGroupEnds(g) ==
    /\ test.active
    /\ test.anims[g].playing
    /\ ~test.anims[g].loop
    /\ LET ended == [test EXCEPT !.anims[g].playing = FALSE, !.anims[g].onEnd = <<>>]
           F[i \in 0..Len(test.anims[g].onEnd)] ==
               IF i = 0 THEN ended ELSE runOnEnd(F[i - 1], test.anims[g].onEnd[i])
       IN  test' = F[Len(test.anims[g].onEnd)]
    /\ UNCHANGED <<inputMap, prevFrame>>
    /\ UNCHANGED testFrame

NextTest ==
    \/ \E key \in PressedKeys : onKeyDown(key)
    \/ \E key \in PressedKeys : onKeyUp(key)
    \/ \E turn \in Turns : onBeforeRender(turn)
    \/ \E g \in 1..Len(TestGroups) : animationGroupEnds(g)

SpecTest == InitTest /\ [][NextTest]_vars

\* frames keep being rendered, and a group that plays without loop ends
SpecTestFair ==
    /\ SpecTest
    /\ WF_vars(\E turn \in Turns : onBeforeRender(turn))
    /\ \A g \in 1..Len(TestGroups) : WF_vars(animationGroupEnds(g))

----------------------------------------------------------------------------
(* App: loading a base model, pruning, selecting, linking and exporting.    *)

HeroGlb  == <<"h", "e", "r", "o", ".", "g", "l", "b">>    \* "hero.glb"
RobotGlb == <<"r", "o", "b", "o", "t", ".", "g", "l", "b">>    \* "robot.glb"
IdleClip == <<"I", "d", "l", "e">>    \* "Idle"
BaseModelSource == <<"(", "b", "a", "s", "e", " ", "m", "o", "d", "e", "l", ")">>    \* "(base model)"
NullOption == <<"n", "u", "l", "l">>    \* the option value "null"
HeadWord == <<"h", "e", "a", "d">>    \* 'head'

\* a base-model file: what an import of it adds to the scene
BaseFileHero ==
    [name |-> HeroGlb, meshes |-> 1, bones |-> <<BoneA, BoneB>>,
     clips |-> <<[clipOf(<<[bone |-> BoneA, keys |-> <<0, 2>>],
                           [bone |-> BoneB, keys |-> <<1, 2>>]>>)
                    EXCEPT !.name = IdleClip]>>]
BaseFileRobot ==
    [name |-> RobotGlb, meshes |-> 2, bones |-> <<BoneMixamoHead>>, clips |-> <<>>]
BaseFiles == {BaseFileHero, BaseFileRobot}

\* the player action names as character strings
actionChars ==
    [idle |-> <<"i", "d", "l", "e">>,
     walk |-> <<"w", "a", "l", "k">>,
     run |-> <<"r", "u", "n">>,
     strafeLeft |-> <<"s", "t", "r", "a", "f", "e", "L", "e", "f", "t">>,
     strafeRight |-> <<"s", "t", "r", "a", "f", "e", "R", "i", "g", "h", "t">>,
     turnLeft |-> <<"t", "u", "r", "n", "L", "e", "f", "t">>,
     turnRight |-> <<"t", "u", "r", "n", "R", "i", "g", "h", "t">>,
     standingToCrouch |-> <<"s", "t", "a", "n", "d", "i", "n", "g", "T", "o", "C", "r", "o", "u", "c", "h">>,
     crouchToStanding |-> <<"c", "r", "o", "u", "c", "h", "T", "o", "S", "t", "a", "n", "d", "i", "n", "g">>,
     crouchIdle |-> <<"c", "r", "o", "u", "c", "h", "I", "d", "l", "e">>,
     crouchWalk |-> <<"c", "r", "o", "u", "c", "h", "W", "a", "l", "k">>]

LoadingBaseMessage(file) == [text |-> "Loading base model", arg |-> file.name]
FoundInBaseMessage(n)    == [text |-> "Found animation(s) in base model.", arg |-> n]
SkeletonLoadedMessage(n) == [text |-> "Base skeleton loaded", arg |-> n]
DefaultMappingMessage    == [text |-> "Generated default 1:1 bone mapping. You can now save it.", arg |-> ""]
HeadSelectedMessage(b)   == [text |-> "Auto-selected as head bone.", arg |-> b]
NoSkeletonMessage        == [text |-> "Warning: No skeleton found on base model.", arg |-> ""]
PrunedMessage(n)         == [text |-> "Pruned unselected animation(s).", arg |-> n]
NoBaseMeshMessage        == [text |-> "Error: No base mesh loaded to export.", arg |-> ""]
ExportingMessage         == [text |-> "Exporting Player GLB...", arg |-> ""]
HeadCamMessage(b)        == [text |-> "Adding camera to head bone for export.", arg |-> b]
NoHeadBoneMessage(b)     == [text |-> "Warning: Could not find head bone to attach camera.", arg |-> b]
PreparingMessage(n)      == [text |-> "Preparing unique animation(s) for export...", arg |-> n]
RenamingMessage(a, b)    == [text |-> "Including and renaming", arg |-> <<a, b>>]
IncludingMessage(a)      == [text |-> "Including selected animation", arg |-> a]
ExportInitiatedMessage   == [text |-> "Player GLB export initiated.", arg |-> ""]

appFrame == <<targetSkeleton, autoMapVars, retargetVars, featureVars, scoreVars,
              loggerVars, mapperVars, testVars, readers, scan>>

\* what appendModelToScene resolves to: the import's meshes, skeleton and
\* animation groups, or nothing when ImportMeshAsync threw (lines 26-31)
appendModelToScene(file, imported, firstMesh) ==
    IF imported
    THEN [newMeshes |-> [i \in 1..file.meshes |-> firstMesh + i],
          skeleton  |-> loadedSkeleton(file.bones),
          newAG     |-> file.clips]
    ELSE [newMeshes |-> <<>>, skeleton |-> NullSkeleton, newAG |-> <<>>]

\* metaGroup.meta = { sourceFileName: '(base model)' }
baseAnimGroup(ag) ==
    [name |-> ag.name, targetedAnimations |-> ag.targetedAnimations,
     from |-> ag.from, to |-> ag.to,
     meta |-> [sourceFileName |-> BaseModelSource]]

\* skeleton.bones.find(b => b.name.toLowerCase().includes('head'))
findHeadBone(bones) ==
    IF \E i \in 1..Len(bones) : includes(toLowerCase(bones[i].name), HeadWord)
    THEN bones[CHOOSE i \in 1..Len(bones) :
                 /\ includes(toLowerCase(bones[i].name), HeadWord)
                 /\ \A j \in 1..(i - 1) : ~includes(toLowerCase(bones[j].name), HeadWord)]
    ELSE NoBone

\* loadBase up to its await, lines 624-632: the meshes and the skeleton of
\* the state the callback was created with are disposed, the import starts
loadBase(file) ==
    /\ userActions < MaxUserActions
    /\ loads.calls < MaxLoads
    /\ addLog(LoadingBaseMessage(file))
    /\ sceneMeshes' = sceneMeshes \ elements(baseMeshes)
    /\ loads' = [calls |-> loads.calls + 1,
                 awaiting |-> loads.awaiting \cup {[id |-> loads.calls + 1, file |-> file]}]
    /\ userActions' = userActions + 1
    /\ UNCHANGED <<baseMeshes, meshCount, headBoneName, exported>>
    /\ UNCHANGED <<mappingTable, baseSkeleton, retargetedGroups, selectedAnimations>>
    /\ UNCHANGED <<animationLinks, appFrame>>

\* loadBase after its await, lines 632-683. The updater of
\* setRetargetedGroups logs either when it is queued or when the next render
\* runs it.
loadBaseResumes(invocation, imported, eager) ==
    /\ invocation \in loads.awaiting
    /\ LET result == appendModelToScene(invocation.file, imported, meshCount)
           skeleton == result.skeleton
           baseAnimGroups == [k \in 1..Len(result.newAG) |-> baseAnimGroup(result.newAG[k])]
           found == IF Len(baseAnimGroups) > 0
                    THEN <<FoundInBaseMessage(Len(baseAnimGroups))>> ELSE <<>>
           head == findHeadBone(skeleton.bones)
           rest == IF ~isNull(skeleton)
                   THEN <<SkeletonLoadedMessage(Len(skeleton.bones)), DefaultMappingMessage>>
                        \o (IF boneFound(head) THEN <<HeadSelectedMessage(head.name)>> ELSE <<>>)
                   ELSE <<NoSkeletonMessage>>
       IN  /\ sceneMeshes' = sceneMeshes \cup elements(result.newMeshes)
           /\ meshCount' = meshCount + Len(result.newMeshes)
           /\ retargetedGroups' = baseAnimGroups
           /\ selectedAnimations' = {g.name : g \in elements(baseAnimGroups)}
           /\ baseMeshes' = result.newMeshes
           /\ baseSkeleton' = skeleton
           /\ mappingTable' = IF ~isNull(skeleton) THEN initialMapping(skeleton) ELSE EmptyTable
           /\ headBoneName' = IF ~isNull(skeleton) /\ boneFound(head)
                              THEN StringValue(head.name) ELSE Undefined
           /\ addLogs(IF eager THEN found \o rest ELSE rest \o found)
    /\ loads' = [loads EXCEPT !.awaiting = @ \ {invocation}]
    /\ UNCHANGED <<exported, userActions>>
    /\ UNCHANGED <<animationLinks, appFrame>>

\* lines 297-305
pruneUnselected ==
    /\ userActions < MaxUserActions
    /\ LET keptGroups == SelectSeq(retargetedGroups, LAMBDA g : g.name \in selectedAnimations)
           removedGroups == SelectSeq(retargetedGroups, LAMBDA g : g.name \notin selectedAnimations)
       IN  /\ retargetedGroups' = keptGroups
           /\ addLog(PrunedMessage(Len(removedGroups)))
    /\ userActions' = userActions + 1
    /\ UNCHANGED <<baseMeshes, sceneMeshes, meshCount, loads, headBoneName, exported>>
    /\ UNCHANGED <<mappingTable, baseSkeleton, selectedAnimations>>
    /\ UNCHANGED <<animationLinks, appFrame>>

\* lines 310-320
handleToggleSelection(animName) ==
    /\ userActions < MaxUserActions
    /\ selectedAnimations' = IF animName \in selectedAnimations
                             THEN selectedAnimations \ {animName}
                             ELSE selectedAnimations \cup {animName}
    /\ userActions' = userActions + 1
    /\ UNCHANGED <<baseMeshes, sceneMeshes, meshCount, loads, headBoneName, exported>>
    /\ UNCHANGED <<mappingTable, logs, logCount, baseSkeleton, retargetedGroups>>
    /\ UNCHANGED <<animationLinks, appFrame>>

\* the option values of a link dropdown, lines 331-340
linkOptions == {NullOption} \cup {g.name : g \in elements(retargetedGroups)}

\* animName === 'null' ? null : animName
linkValue(animName) == IF animName = NullOption THEN Undefined ELSE StringValue(animName)

\* lines 307-309
handleLinkChange(action, animName) ==
    /\ userActions < MaxUserActions
    /\ animationLinks' = [animationLinks EXCEPT ![action] = linkValue(animName)]
    /\ userActions' = userActions + 1
    /\ UNCHANGED <<baseMeshes, sceneMeshes, meshCount, loads, headBoneName, exported>>
    /\ UNCHANGED <<mappingTable, logs, logCount, baseSkeleton, retargetedGroups,
                   selectedAnimations>>
    /\ UNCHANGED appFrame

\* the actions linked to a name, by their position in Object.entries
actionsLinkedTo(links, animName) ==
    {i \in 1..Len(playerActions) :
        truthy(links[playerActions[i]]) /\ links[playerActions[i]].value = animName}

\* lines 789-794: linkedAnimsMap.set(animName, action.toLowerCase()) for every
\* entry with a name, a later entry overwriting an earlier one of the same name
linkedAnimsMap(links) ==
    [animName \in {links[a].value : a \in {b \in PlayerAction : truthy(links[b])}} |->
        LET last == CHOOSE i \in actionsLinkedTo(links, animName) :
                        \A j \in actionsLinkedTo(links, animName) : j <= i
        IN  toLowerCase(actionChars[playerActions[last]])]

\* the keys of linkedAnimsMap in insertion order
linkedNames(links) ==
    LET first(i) == truthy(links[playerActions[i]])
                    /\ \A j \in 1..(i - 1) : links[playerActions[j]] # links[playerActions[i]]
        F[i \in 0..Len(playerActions)] ==
            IF i = 0 THEN <<>>
            ELSE IF first(i) THEN Append(F[i - 1], links[playerActions[i]].value)
            ELSE F[i - 1]
    IN  F[Len(playerActions)]

\* the orders in which a Set with these elements may iterate
orderings(S) ==
    {order \in [1..Cardinality(S) -> S] :
        \A i \in 1..Cardinality(S) : \A j \in 1..Cardinality(S) : order[i] = order[j] => i = j}

\* retargetedGroups.find(g => g.name === animName), as a position; 0 if none
findGroup(groups, animName) ==
    IF \E i \in 1..Len(groups) : groups[i].name = animName
    THEN CHOOSE i \in 1..Len(groups) :
            /\ groups[i].name = animName
            /\ \A j \in 1..(i - 1) : groups[j].name # animName
    ELSE 0

\* lines 802-806: a new group with the tracks of the original, normalized to
\* the original's play range
renamedGroup(originalGroup, newName) ==
    LET tracks == originalGroup.targetedAnimations
        F[i \in 0..Len(tracks)] ==
            IF i = 0 THEN createAnimationGroup(newName)
            ELSE addTargetedAnimation(F[i - 1], tracks[i].animation, tracks[i].target)
    IN  normalize(F[Len(tracks)], originalGroup.from, originalGroup.to)

\* handleExport up to its await, lines 765-819. selectedOrder is the order in
\* which the Set selectedAnimations iterates.
handleExport(selectedOrder) ==
    /\ userActions < MaxUserActions
    /\ ~exported.pending
    /\ userActions' = userActions + 1
    /\ IF Len(baseMeshes) = 0
       THEN /\ addLog(NoBaseMeshMessage)
            /\ UNCHANGED <<exported, retargetedGroups>>
       ELSE LET headBone == IF truthy(headBoneName) /\ ~isNull(baseSkeleton)
                            THEN findBone(baseSkeleton.bones, headBoneName.value)
                            ELSE NoBone
                headLogs == IF truthy(headBoneName) /\ ~isNull(baseSkeleton)
                            THEN IF boneFound(headBone)
                                 THEN <<HeadCamMessage(headBoneName.value)>>
                                 ELSE <<NoHeadBoneMessage(headBoneName.value)>>
                            ELSE <<>>
                linked == linkedAnimsMap(animationLinks)
                allNamesToExport ==
                    selectedOrder \o SelectSeq(linkedNames(animationLinks),
                                               LAMBDA n : n \notin selectedAnimations)
                present == SelectSeq(allNamesToExport,
                                     LAMBDA n : findGroup(retargetedGroups, n) # 0)
                \* normalize pads the animations, which the new group shares
                \* with the original one
                padded == [i \in 1..Len(retargetedGroups) |->
                            IF /\ retargetedGroups[i].name \in DOMAIN linked
                               /\ findGroup(retargetedGroups, retargetedGroups[i].name) = i
                            THEN [retargetedGroups[i] EXCEPT !.targetedAnimations =
                                    renamedGroup(retargetedGroups[i], EmptyString).targetedAnimations]
                            ELSE retargetedGroups[i]]
                groupFor(n) ==
                    IF n \in DOMAIN linked
                    THEN renamedGroup(retargetedGroups[findGroup(retargetedGroups, n)], linked[n])
                    ELSE padded[findGroup(retargetedGroups, n)]
                logFor(n) ==
                    IF n \in DOMAIN linked THEN RenamingMessage(n, linked[n])
                    ELSE IncludingMessage(n)
            IN  /\ addLogs(<<ExportingMessage>> \o headLogs
                           \o <<PreparingMessage(Len(allNamesToExport))>>
                           \o [i \in 1..Len(present) |-> logFor(present[i])])
                /\ retargetedGroups' = padded
                /\ exported' = [called |-> TRUE, pending |-> TRUE,
                                nodes |-> baseMeshes,
                                headCam |-> boneFound(headBone),
                                animationGroups |-> {groupFor(present[i]) : i \in 1..Len(present)},
                                animationLinks |-> animationLinks,
                                retargetedGroups |-> padded]
    /\ UNCHANGED <<baseMeshes, sceneMeshes, meshCount, loads, headBoneName>>
    /\ UNCHANGED <<mappingTable, baseSkeleton, selectedAnimations>>
    /\ UNCHANGED <<animationLinks, appFrame>>

\* handleExport after its await, lines 820-823: exportGLB resolved or threw
exportSettled(resolved) ==
    /\ exported.pending
    /\ exported' = [exported EXCEPT !.pending = FALSE]
    /\ IF resolved THEN addLog(ExportInitiatedMessage) ELSE UNCHANGED <<logs, logCount>>
    /\ UNCHANGED <<baseMeshes, sceneMeshes, meshCount, loads, headBoneName, userActions>>
    /\ UNCHANGED <<mappingTable, baseSkeleton, retargetedGroups, selectedAnimations>>
    /\ UNCHANGED <<animationLinks, appFrame>>

\* the editor after its startup and a scan of walk.glb
AppStartGroups ==
    <<retargetedGroupOf(AnimFileWalk, AnimFileWalk.clips[1],
                        [mappingTable |-> initialMapping(ScanSkeleton),
                         baseSkeleton |-> ScanSkeleton])>>

AppStartMessages ==
    <<RetargetedMessage(AnimFileWalk.clips[1]), FoundMessage(1, AnimFileWalk),
      ScanningMessage(1)>> \o StartupMessages

\* the actions whose links are edited
EditedActions == {"idle", "walk"}

InitApp ==
    /\ baseSkeleton = ScanSkeleton
    /\ mappingTable = initialMapping(ScanSkeleton)
    /\ logs = [i \in 1..Len(AppStartMessages) |-> [id |-> 1 - i, message |-> AppStartMessages[i]]]
    /\ logCount = 0
    /\ readers = [f \in Files |-> 0]
    /\ retargetedGroups = AppStartGroups
    /\ selectedAnimations = {g.name : g \in elements(AppStartGroups)}
    /\ scan = NoScan
    /\ baseMeshes = <<1>>
    /\ sceneMeshes = {1}
    /\ meshCount = 1
    /\ loads = [calls |-> 0, awaiting |-> {}]
    /\ headBoneName = Undefined
    /\ exported = NoExport
    /\ userActions = 0
    /\ animationLinks = initialAnimationLinks
    /\ targetSkeleton = skeletonOf(<<>>)
    /\ IdleAutoMap
    /\ IdleRetarget
    /\ IdleFeatures
    /\ IdleScore
    /\ IdleLogger
    /\ IdleMapper
    /\ IdleTest

NextApp ==
    \/ \E file \in BaseFiles : loadBase(file)
    \/ \E invocation \in loads.awaiting : \E imported \in BOOLEAN, eager \in BOOLEAN :
          loadBaseResumes(invocation, imported, eager)
    \/ ~isNull(baseSkeleton) /\ scanAndAddAnimations(<<AnimFilePose>>)
    \/ \E imported \in BOOLEAN : importSettled(imported)
    \/ pruneUnselected
    \/ \E animName \in {g.name : g \in elements(retargetedGroups)} :
          handleToggleSelection(animName)
    \/ \E action \in EditedActions : \E animName \in linkOptions :
          handleLinkChange(action, animName)
    \/ \E selectedOrder \in orderings(selectedAnimations) : handleExport(selectedOrder)
    \/ \E resolved \in BOOLEAN : exportSettled(resolved)

SpecApp == InitApp /\ [][NextApp]_vars

----------------------------------------------------------------------------
(* normalizeBoneName and getBoneFeatures on their own: the name is drawn,    *)
(* normalised as autoMapBones does for every source and target bone, and    *)
(* its features extracted; normalising the result once more shows whether   *)
(* a second pass still finds something to change.                           *)

NameAlphabet == {"L", "l", "r", "a", "m", "_", ".", ":", "-"}

DrawnNames == SeqsUpTo(NameAlphabet, MaxNameLen) \cup NamePool

InitFeatures ==
    /\ rawName \in DrawnNames
    /\ normName = EmptyString
    /\ renormName = EmptyString
    /\ nameFeatures = getBoneFeatures(EmptyString)
    /\ nameDone = {}
    /\ targetSkeleton = skeletonOf(<<>>)
    /\ IdleAutoMap
    /\ IdleRetarget
    /\ IdleSession
    /\ IdleScore
    /\ IdleScan
    /\ IdleRest

featureFrame == <<targetSkeleton, autoMapVars, retargetVars, sessionVars, scoreVars, scanVars, restVars>>

callNormalizeBoneName ==
    /\ "normalize" \notin nameDone
    /\ normName' = normalizeBoneName(rawName)
    /\ nameDone' = nameDone \cup {"normalize"}
    /\ UNCHANGED <<rawName, renormName, nameFeatures, featureFrame>>

callNormalizeBoneNameAgain ==
    /\ "normalize" \in nameDone
    /\ "renormalize" \notin nameDone
    /\ renormName' = normalizeBoneName(normName)
    /\ nameDone' = nameDone \cup {"renormalize"}
    /\ UNCHANGED <<rawName, normName, nameFeatures, featureFrame>>

callGetBoneFeatures ==
    /\ "normalize" \in nameDone
    /\ "features" \notin nameDone
    /\ nameFeatures' = getBoneFeatures(normName)
    /\ nameDone' = nameDone \cup {"features"}
    /\ UNCHANGED <<rawName, normName, renormName, featureFrame>>

NextFeatures ==
    \/ callNormalizeBoneName
    \/ callNormalizeBoneNameAgain
    \/ callGetBoneFeatures

SpecFeatures == InitFeatures /\ [][NextFeatures]_vars

----------------------------------------------------------------------------
(* getScore on its own: two feature sets are drawn and scored. *)

Sides == {"left", "right", "center"}
ScoreTags == {"arm", "elbow", "head"}
DrawnFeatures == [keywords : SUBSET ScoreTags, side : Sides]

InitScore ==
    /\ scoreSource \in DrawnFeatures
    /\ scoreTarget \in DrawnFeatures
    /\ scoreValue = 0
    /\ scoreDone = FALSE
    /\ targetSkeleton = skeletonOf(<<>>)
    /\ IdleAutoMap
    /\ IdleRetarget
    /\ IdleSession
    /\ IdleFeatures
    /\ IdleScan
    /\ IdleRest

callGetScore ==
    /\ ~scoreDone
    /\ scoreValue' = getScore(scoreSource, scoreTarget)
    /\ scoreDone' = TRUE
    /\ UNCHANGED <<scoreSource, scoreTarget, targetSkeleton, autoMapVars,
                   retargetVars, sessionVars, featureVars, scanVars, restVars>>

NextScore == callGetScore

SpecScore == InitScore /\ [][NextScore]_vars

----------------------------------------------------------------------------
(* Properties of autoMapBones, checked under SpecAutoMap. *)

sourceNames == elements(sourceBoneNames)
targetNames == elements(boneNames(targetSkeleton.bones))

sideOf(name) == featuresOf(name).side
keywordsOf(name) == featuresOf(name).keywords

oppositeSides(s, t) == {sideOf(s), sideOf(t)} = {"left", "right"}

\* C1: autoMapBones is total: for every source list and every target skeleton,
\* the empty skeleton included, the call returns, and every name of the source
\* list is a key of the returned table.
C1_AutoMapTotal ==
    /\ ~autoMapDone =>
          DOMAIN autoMapBones(sourceBoneNames, targetSkeleton).mapping = sourceNames
    /\ autoMapDone => \A i \in 1..Len(sourceBoneNames) :
                         sourceBoneNames[i] \in DOMAIN autoMapped.mapping

\* The call has returned a table for two source bones and an empty skeleton.
C1_Witness ==
    /\ autoMapDone
    /\ Len(targetSkeleton.bones) = 0
    /\ Cardinality(sourceNames) >= 2
    /\ sourceNames \subseteq DOMAIN autoMapped.mapping

\* C2 as stated: the returned table has as many entries as the source list
\* has elements, for all inputs.
C2_EntriesEqualListLength ==
    autoMapDone => Cardinality(DOMAIN autoMapped.mapping) = Len(sourceBoneNames)

\* C2 as amended: the returned table has one entry for each distinct name of
\* the source list, so as many entries as the list has elements exactly when
\* no name occurs twice in the list.
C2_EntriesEqualDistinctSources ==
    autoMapDone =>
        /\ Cardinality(DOMAIN autoMapped.mapping) = Cardinality(sourceNames)
        /\ (\A i, j \in 1..Len(sourceBoneNames) :
                i # j => sourceBoneNames[i] # sourceBoneNames[j])
           => Cardinality(DOMAIN autoMapped.mapping) = Len(sourceBoneNames)

\* The call has returned for a list that names the same bone twice, onto a
\* skeleton with bones: the table has fewer entries than the list has names.
C2_Witness ==
    /\ autoMapDone
    /\ Len(sourceBoneNames) > Cardinality(sourceNames)
    /\ Cardinality(DOMAIN autoMapped.mapping) = Cardinality(sourceNames)
    /\ Len(targetSkeleton.bones) >= 1

\* C3: side veto: for a source bone and a target bone whose derived sides are
\* Left and Right (either way round), getScore returns the invalid sentinel
\* and the returned table does not map that source to that target, whatever
\* their keyword overlap and whatever the other bones are.
C3_SideVeto ==
    autoMapDone =>
        \A s \in sourceNames : \A t \in targetNames :
            oppositeSides(s, t) =>
                /\ getScore(featuresOf(s), featuresOf(t)) = InvalidScore
                /\ ~(s \in DOMAIN autoMapped.mapping /\ autoMapped.mapping[s] = t)

\* The call has returned for a Left source and a Right target that share a
\* keyword, with another target bone present.
C3_Witness ==
    /\ autoMapDone
    /\ Cardinality(targetNames) >= 2
    /\ \E s \in sourceNames : \E t \in targetNames :
          /\ oppositeSides(s, t)
          /\ keywordsOf(s) \cap keywordsOf(t) # {}

\* C4: in the greedy pass no two committed pairs share a source or a target:
\* each target bone name is committed to at most one source bone and each
\* source bone name receives at most one target.
C4_GreedyCommitsDisjointPairs ==
    autoMapDone =>
        /\ \A i, j \in 1..Len(autoMapped.committed) :
              i # j => /\ autoMapped.committed[i].source # autoMapped.committed[j].source
                       /\ autoMapped.committed[i].target # autoMapped.committed[j].target
        /\ \A s1, s2 \in DOMAIN autoMapped.greedyMapping :
              s1 # s2 => autoMapped.greedyMapping[s1] # autoMapped.greedyMapping[s2]

\* The greedy pass has committed two pairs and passed over a retained pair.
C4_Witness ==
    /\ autoMapDone
    /\ Len(autoMapped.committed) >= 2
    /\ Len(autoMapped.allPairs) > Len(autoMapped.committed)

\* C10: for sources mixamorig:LeftArm, mixamorig:RightArm, mixamorig:Head and
\* targets LeftArm, RightArm, Head, Spine the returned table maps
\* mixamorig:LeftArm to LeftArm, mixamorig:RightArm to RightArm and
\* mixamorig:Head to Head; the side of mixamorig:Head is Right, from the "r"
\* of its prefix.
C10_MixamoScenario ==
    (/\ autoMapDone
     /\ sourceBoneNames = ScenarioSources
     /\ boneNames(targetSkeleton.bones) = ScenarioTargets)
    => /\ sideOf(BoneMixamoHead) = "right"
       /\ sideOf(BoneMixamoLeftArm) = "left"
       /\ DOMAIN autoMapped.mapping = elements(ScenarioSources)
       /\ autoMapped.mapping[BoneMixamoLeftArm] = BoneLeftArm
       /\ autoMapped.mapping[BoneMixamoRightArm] = BoneRightArm
       /\ autoMapped.mapping[BoneMixamoHead] = BoneHead

\* The call has returned for the scenario's inputs.
C10_Witness ==
    /\ autoMapDone
    /\ sourceBoneNames = ScenarioSources
    /\ boneNames(targetSkeleton.bones) = ScenarioTargets
    /\ Len(autoMapped.committed) = 3

\* C11: every source bone the greedy pass did not commit is mapped to its own
\* unmodified name; Bip01_L_Thigh against a skeleton that has only thigh.R,
\* on the opposite side, is mapped to Bip01_L_Thigh.
C11_UncommittedSelfMapped ==
    autoMapDone =>
        /\ \A s \in sourceNames \ autoMapped.mappedSources :
              /\ s \in DOMAIN autoMapped.mapping
              /\ autoMapped.mapping[s] = s
        /\ (sourceBoneNames = ThighSources /\ boneNames(targetSkeleton.bones) = ThighTargets)
           => /\ autoMapped.committed = <<>>
              /\ autoMapped.mapping[BoneBipLThigh] = BoneBipLThigh

\* The call has returned for Bip01_L_Thigh against thigh.R alone: nothing was
\* retained, and the bone maps to itself, separators and capitals kept.
C11_Witness ==
    /\ autoMapDone
    /\ sourceBoneNames = ThighSources
    /\ boneNames(targetSkeleton.bones) = ThighTargets
    /\ autoMapped.allPairs = <<>>
    /\ autoMapped.mapping[BoneBipLThigh] # normalizeBoneName(BoneBipLThigh)

----------------------------------------------------------------------------
(* Properties of retargetAnimationGroup, checked under SpecRetarget. *)

sourceTracks == sourceAnimGroup.targetedAnimations
outputTracks == newAnimationGroup.targetedAnimations

trackBone(i) == sourceTracks[i].target.name

\* the table has no entry for the track's bone, or an empty one
unmappedTrack(i) ==
    trackBone(i) \notin DOMAIN mapping \/ mapping[trackBone(i)] = EmptyString

\* the entry of the track's bone names a bone of the target skeleton
resolvableTrack(i) ==
    /\ ~unmappedTrack(i)
    /\ mapping[trackBone(i)] \in targetNames

\* the entry of the track's bone names a bone the target skeleton does not have
danglingTrack(i) == ~unmappedTrack(i) /\ ~resolvableTrack(i)

\* some track of the output clip was cloned from source track i
survives(i) == \E k \in 1..Len(outputTracks) : outputTracks[k].animation.cloneOf = i

UnmapATable == [k \in {BoneA, BoneB} |-> IF k = BoneA THEN EmptyString ELSE BoneB]

unmapAScenario ==
    /\ mapping = UnmapATable
    /\ Len(sourceTracks) = 2
    /\ trackBone(1) = BoneA
    /\ trackBone(2) = BoneB
    /\ BoneB \in targetNames

\* C5: a source track is dropped whenever the table has no entry for its bone
\* or the entry is the empty string, both alike: it contributes no track to
\* the output clip. With table {A: "", B: "B"} and tracks on A and B the
\* output has exactly one track, for B.
C5_UnmappedTracksDropped ==
    retargetDone =>
        /\ \A i \in 1..Len(sourceTracks) : unmappedTrack(i) => ~survives(i)
        /\ unmapAScenario =>
              /\ Len(outputTracks) = 1
              /\ outputTracks[1].target.name = BoneB
              /\ outputTracks[1].animation.cloneOf = 2

\* The scenario has been retargeted onto a skeleton that has both A and B.
C5_Witness ==
    /\ retargetDone
    /\ unmapAScenario
    /\ BoneA \in targetNames
    /\ Len(outputTracks) = 1

\* C6: a track whose entry names a bone the target skeleton does not have is
\* dropped without an error: the call returns, the track is not in the output,
\* every track with a resolvable entry is, and an output without tracks is
\* returned like any other.
C6_DanglingEntryDropped ==
    /\ ~retargetDone =>
          retargetAnimationGroup(sourceAnimGroup, targetSkeleton, mapping).name
              = sourceAnimGroup.name
    /\ retargetDone =>
          \A i \in 1..Len(sourceTracks) :
              danglingTrack(i) =>
                  /\ ~survives(i)
                  /\ \A j \in 1..Len(sourceTracks) : resolvableTrack(j) => survives(j)

\* A clip whose first track has a dangling entry ("Z") and whose second track
\* resolves has been retargeted: one track, the second, is in the output.
C6_Witness ==
    /\ retargetDone
    /\ Len(sourceTracks) = 2
    /\ danglingTrack(1)
    /\ mapping[trackBone(1)] = BoneZ
    /\ resolvableTrack(2)
    /\ Len(outputTracks) = 1
    /\ survives(2)

\* C7: the retargeted clip has at most as many tracks as the source clip, and
\* as many exactly when every bone used by a track of the source clip has a
\* non-empty entry that names a bone of the target skeleton.
C7_TrackCountBound ==
    retargetDone =>
        /\ Len(outputTracks) <= Len(sourceTracks)
        /\ (Len(outputTracks) = Len(sourceTracks))
           <=> (\A i \in 1..Len(sourceTracks) : resolvableTrack(i))

\* A clip of two tracks on different bones has kept both.
C7_Witness ==
    /\ retargetDone
    /\ Len(sourceTracks) >= 2
    /\ trackBone(1) # trackBone(2)
    /\ Len(outputTracks) = Len(sourceTracks)

\* C8: the play range of the retargeted clip is the play range of the source
\* clip, however many tracks were dropped, all of them included.
C8_RangePreserved ==
    retargetDone =>
        /\ newAnimationGroup.from = sourceAnimGroup.from
        /\ newAnimationGroup.to = sourceAnimGroup.to

\* A clip of two tracks with different key ranges has lost one of them.
C8_Witness ==
    /\ retargetDone
    /\ Len(sourceTracks) = 2
    /\ sourceTracks[1].animation.keys # sourceTracks[2].animation.keys
    /\ Len(outputTracks) = 1
    /\ newAnimationGroup.from = sourceAnimGroup.from

----------------------------------------------------------------------------
(* Properties of the editing session, checked under Spec. *)

\* the step is the onload of a reader of the file
onloadRan(file) == readers[file] > 0 /\ readers'[file] = readers[file] - 1

\* C9: when the text of a mapping file fails to parse, the load reports one
\* diagnostic log message and leaves the mapping table as it was; the load
\* replaces the table only when parsing succeeds.
C9_FailedParseKeepsTable ==
    [][\A file \in Files :
          onloadRan(file) =>
              IF JSONparse(file.text).ok
              THEN mappingTable' = JSONparse(file.text).value
              ELSE /\ mappingTable' = mappingTable
                   /\ Len(logs') = Len(logs) + 1
                   /\ logs'[1].message = ParseErrorMessage
                   /\ SubSeq(logs', 2, Len(logs')) = logs]_vars

\* A malformed file has been loaded after a well-formed one: the error is the
\* newest log entry and the table still holds what the first file gave.
C9_Witness ==
    /\ Len(logs) >= 2
    /\ logs[1].message = ParseErrorMessage
    /\ mappingTable # EmptyTable


----------------------------------------------------------------------------
(* Further properties of autoMapBones, checked under SpecAutoMap. *)

\* C16: in the table autoMapBones returns, greedy and fallback entries together,
\* no bone of the target skeleton is reused: no target bone name is the value
\* of two different source keys, so a fallback self-mapping never points at a
\* target bone already assigned to another source.
C16_NoTargetReused ==
    autoMapDone =>
        \A s1 \in DOMAIN autoMapped.mapping : \A s2 \in DOMAIN autoMapped.mapping :
            (s1 # s2 /\ autoMapped.mapping[s1] \in targetNames)
                => autoMapped.mapping[s1] # autoMapped.mapping[s2]

\* the pairs of seq whose score is v, in the order seq has them
pairsWithScore(seq, v) ==
    LET F[i \in 0..Len(seq)] ==
            IF i = 0 THEN <<>>
            ELSE IF seq[i].score = v THEN Append(F[i - 1], seq[i]) ELSE F[i - 1]
    IN  F[Len(seq)]

\* the retained pairs as step 1 enumerates them: source list outer, targets inner
enumeratedPairs == scorePairs(sourceBoneNames, autoMapped.targetBoneNames)

\* positions of the walk order at which a pair is committed when a pair is
\* taken exactly if no earlier taken pair has its source or its target
takenPositions(walk) ==
    LET F[i \in 0..Len(walk)] ==
            IF i = 0 THEN {}
            ELSE IF \A j \in F[i - 1] : /\ walk[j].source # walk[i].source
                                        /\ walk[j].target # walk[i].target
                 THEN F[i - 1] \cup {i}
                 ELSE F[i - 1]
    IN  F[Len(walk)]

\* the pairs of walk at the given positions, in walk order
pairsAt(walk, positions) ==
    LET F[i \in 0..Len(walk)] ==
            IF i = 0 THEN <<>>
            ELSE IF i \in positions THEN Append(F[i - 1], walk[i]) ELSE F[i - 1]
    IN  F[Len(walk)]

\* C17: the greedy walk visits the retained pairs by descending score, equal
\* scores in enumeration order (source outer, target inner), and commits
\* (s, t) exactly when neither s nor t was committed earlier in the walk;
\* hence, for a committed (s, t), every retained (s, t') of strictly higher
\* score has t' committed to another source by a pair scoring at least as much.
C17_GreedyWalkOrder ==
    autoMapDone =>
        LET walk  == autoMapped.allPairs
            taken == takenPositions(walk)
        IN  /\ \A i \in 1..Len(walk) : \A j \in i..Len(walk) : walk[i].score >= walk[j].score
            /\ Len(walk) = Len(enumeratedPairs)
            /\ \A i \in 1..Len(walk) :
                  pairsWithScore(walk, walk[i].score)
                      = pairsWithScore(enumeratedPairs, walk[i].score)
            /\ autoMapped.committed = pairsAt(walk, taken)
            /\ \A i \in taken : autoMapped.mapping[walk[i].source] = walk[i].target
            /\ \A i \in taken : \A k \in 1..Len(walk) :
                  (walk[k].source = walk[i].source /\ walk[k].score > walk[i].score)
                      => \E j \in taken : /\ walk[j].target = walk[k].target
                                          /\ walk[j].source # walk[i].source
                                          /\ walk[j].score >= walk[k].score

\* The call has returned with two sources tied on one score, and with a source
\* committed to its second choice because a better-scoring target of its own
\* had gone to another source.
C17_Witness ==
    /\ autoMapDone
    /\ \E i \in 1..Len(autoMapped.allPairs) : \E j \in 1..Len(autoMapped.allPairs) :
          /\ i < j
          /\ autoMapped.allPairs[i].score = autoMapped.allPairs[j].score
          /\ autoMapped.allPairs[i].source # autoMapped.allPairs[j].source
    /\ \E i \in 1..Len(autoMapped.committed) : \E k \in 1..Len(autoMapped.allPairs) :
          /\ autoMapped.allPairs[k].source = autoMapped.committed[i].source
          /\ autoMapped.allPairs[k].score > autoMapped.committed[i].score

----------------------------------------------------------------------------
(* Further properties of retargetAnimationGroup, checked under SpecRetarget. *)

\* positions of the source tracks whose entry names a bone of the skeleton, ascending
resolvablePositions ==
    LET F[i \in 0..Len(sourceTracks)] ==
            IF i = 0 THEN <<>>
            ELSE IF resolvableTrack(i) THEN Append(F[i - 1], i) ELSE F[i - 1]
    IN  F[Len(sourceTracks)]

\* C20: the tracks of the retargeted clip are, in source order, exactly the
\* surviving source tracks: output track k is a clone of the k-th source track
\* whose entry resolves, bound to a bone of the target skeleton whose name is
\* that entry, and there is no other output track.
C20_OutputTracksInSourceOrder ==
    retargetDone =>
        /\ Len(outputTracks) = Len(resolvablePositions)
        /\ \A k \in 1..Len(outputTracks) :
              LET i == resolvablePositions[k]
              IN  /\ outputTracks[k].animation.cloneOf = sourceTracks[i].animation.id
                  /\ outputTracks[k].animation.id # sourceTracks[i].animation.id
                  /\ outputTracks[k].animation.keys[1] <= sourceTracks[i].animation.keys[1]
                  /\ outputTracks[k].animation.keys[2] >= sourceTracks[i].animation.keys[2]
                  /\ outputTracks[k].target.name = mapping[trackBone(i)]
                  /\ outputTracks[k].target \in elements(targetSkeleton.bones)

\* The call has returned for a clip whose two tracks both survive and whose
\* table crosses them over, A onto B and B onto A.
C20_Witness ==
    /\ retargetDone
    /\ Len(sourceTracks) = 2
    /\ Len(outputTracks) = 2
    /\ trackBone(1) = BoneA
    /\ trackBone(2) = BoneB
    /\ outputTracks[1].target.name = BoneB
    /\ outputTracks[2].target.name = BoneA

\* C12: retargetAnimationGroup never mutates the mapping table it is given:
\* over the call, the caller's table keeps its keys and its values.
C12_MappingNotMutated ==
    [][(~retargetDone /\ retargetDone') => mapping' = mapping]_vars

\* The call has returned for a clip with a track whose bone has no usable
\* entry, next to a track that was mapped and kept.
C12_Witness ==
    /\ retargetDone
    /\ \E i \in 1..Len(sourceTracks) : unmappedTrack(i) /\ trackBone(i) \notin DOMAIN mapping
    /\ \E i \in 1..Len(sourceTracks) : survives(i)


----------------------------------------------------------------------------
(* Properties of normalizeBoneName and getBoneFeatures, checked under       *)
(* SpecFeatures.                                                            *)

upperCaseLetters == {UpperCase[i] : i \in 1..Len(UpperCase)}

charsOf(s) == {s[i] : i \in 1..Len(s)}

\* sub occurs in s as a contiguous run of characters
occursIn(sub, s) ==
    \E i \in 1..(Len(s) - Len(sub) + 1) : SubSeq(s, i, i + Len(sub) - 1) = sub

\* C15: normalizeBoneName is idempotent, and its result holds no upper-case
\* letter and none of the characters - _ . :
C15_NormalizeIdempotent ==
    /\ "normalize" \in nameDone =>
          /\ charsOf(normName) \cap upperCaseLetters = {}
          /\ charsOf(normName) \cap {"-", "_", ".", ":"} = {}
    /\ "renormalize" \in nameDone => renormName = normName

\* Both passes have run on a name holding a capital and two separators, so
\* the first pass had several characters to change and to remove.
C15_Witness ==
    /\ "renormalize" \in nameDone
    /\ charsOf(rawName) \cap upperCaseLetters # {}
    /\ Len(rawName) - Len(normName) >= 2
    /\ Len(normName) > 0

leftMarker  == occursIn(<<"l">>, normName) \/ occursIn(<<"l", "e", "f", "t">>, normName)
rightMarker == occursIn(<<"r">>, normName) \/ occursIn(<<"r", "i", "g", "h", "t">>, normName)

\* the tag's variants, read off the keyword table
variantsOf(tag) ==
    UNION {elements(boneKeywordMap[k].variations) :
              k \in {k \in 1..Len(boneKeywordMap) : boneKeywordMap[k].standard = tag}}

allTags == {boneKeywordMap[k].standard : k \in 1..Len(boneKeywordMap)}

\* C19: the side is Left for every normalized name with a left marker, also
\* when it has a right marker too; Right only with a right marker and no left
\* marker; Center otherwise. A keyword tag is in the set exactly when the name
\* contains one of the tag's variants.
C19_LeftPriority ==
    "features" \in nameDone =>
        /\ leftMarker => nameFeatures.side = "left"
        /\ nameFeatures.side = "right" <=> (~leftMarker /\ rightMarker)
        /\ nameFeatures.side = "center" <=> (~leftMarker /\ ~rightMarker)
        /\ \A tag \in allTags :
              tag \in nameFeatures.keywords
                  <=> \E variant \in variantsOf(tag) : occursIn(variant, normName)
        /\ nameFeatures.keywords \subseteq allTags

\* Features were extracted from a name with both a left and a right marker
\* that also carries a keyword.
C19_Witness ==
    /\ "features" \in nameDone
    /\ leftMarker
    /\ rightMarker
    /\ nameFeatures.side = "left"
    /\ nameFeatures.keywords # {}

----------------------------------------------------------------------------
(* Properties of getScore, checked under SpecScore. *)

sharedTags == Cardinality(scoreSource.keywords \cap scoreTarget.keywords)

tieBreaker ==
    IF scoreSource.keywords # {} /\ scoreTarget.keywords # {} /\ sharedTags = 0
    THEN 1 ELSE 0

sideVetoed ==
    /\ scoreSource.side # "center"
    /\ scoreTarget.side # "center"
    /\ scoreSource.side # scoreTarget.side

exactlyOneCenter == (scoreSource.side = "center") # (scoreTarget.side = "center")

\* the side bonus as the code awards it: 50 for equal sides, two centres included
sideBonus ==
    IF scoreSource.side = scoreTarget.side THEN 50
    ELSE IF exactlyOneCenter THEN 25
    ELSE 0

\* the side bonus with its two listed cases only
sideBonusNonCenter ==
    IF scoreSource.side = scoreTarget.side /\ scoreSource.side # "center" THEN 50
    ELSE IF exactlyOneCenter THEN 25
    ELSE 0

\* C18 as stated: a pair that is not side-vetoed scores side bonus + 20 x shared
\* tags + the tie-breaker, the side bonus being 50 for the same non-center side
\* and 25 when exactly one bone is Center.
C18_ScoreFormulaNonCenter ==
    (scoreDone /\ ~sideVetoed) =>
        scoreValue = sideBonusNonCenter + 20 * sharedTags + tieBreaker

\* C18, amended: a pair that is not side-vetoed scores side bonus + 20 x shared
\* tags + the tie-breaker, the side bonus being 50 whenever the two sides are
\* equal (two Center bones included) and 25 when exactly one bone is Center.
C18_ScoreFormula ==
    (scoreDone /\ ~sideVetoed) =>
        scoreValue = sideBonus + 20 * sharedTags + tieBreaker

\* Two Center bones with two shared tags have been scored.
C18_Witness ==
    /\ scoreDone
    /\ scoreSource.side = "center"
    /\ scoreTarget.side = "center"
    /\ sharedTags = 2
    /\ scoreValue = 90


----------------------------------------------------------------------------
(* Properties of the editing session while animations are scanned, checked  *)
(* under SpecScan.                                                          *)

\* the clips the invocation has retargeted so far are what the retargeter
\* yields for the invocation's own table and skeleton
GroupsUseSnapshot ==
    \A k \in 1..Len(scan.newRetargetedGroups) :
        LET g == scan.newRetargetedGroups[k]
        IN  \E file \in elements(scan.files) : \E c \in 1..Len(file.clips) :
                LET expected == retargetAnimationGroup(file.clips[c], scan.baseSkeleton,
                                                       scan.mappingTable)
                IN  /\ g.meta.sourceFileName = file.name
                    /\ g.targetedAnimations = expected.targetedAnimations
                    /\ g.from = expected.from
                    /\ g.to = expected.to

\* C13: all clips retargeted by one scanAndAddAnimations invocation use the
\* table as it was when the invocation started: the invocation's table is the
\* session's table at the call and stays that value through every step, edits
\* and mapping-file loads included, and each clip's tracks and targets are
\* the ones that table gives.
C13_ScanUsesSnapshot ==
    [][/\ (scan.pc = "idle" /\ scan'.pc = "importing") => scan'.mappingTable = mappingTable
       /\ scan.pc = "importing" => scan'.mappingTable = scan.mappingTable
       /\ scan' # scan => GroupsUseSnapshot'
       /\ (scan.pc = "importing" /\ scan'.pc = "done")
              => retargetedGroups' = retargetedGroups \o scan'.newRetargetedGroups]_vars

\* the table now in the session would retarget this clip differently from
\* the table the invocation holds
liveTableDiffers(clip) ==
    retargetAnimationGroup(clip, scan.baseSkeleton, mappingTable).targetedAnimations
        # retargetAnimationGroup(clip, scan.baseSkeleton, scan.mappingTable).targetedAnimations

\* The first file of an invocation has been retargeted, the import of the
\* second is pending, and the session's table has been changed since the call
\* in a way that would move or drop tracks of both files' clips.
C13_Witness ==
    /\ scan.pc = "importing"
    /\ scan.next = 2
    /\ Len(scan.newRetargetedGroups) = 1
    /\ mappingTable # scan.mappingTable
    /\ scan.files[2].clips # <<>>
    /\ liveTableDiffers(scan.files[1].clips[1])
    /\ liveTableDiffers(scan.files[2].clips[1])

\* C14: handleMappingChange(source, target) overwrites exactly the one key
\* and leaves every other entry as it was, whereas a mapping-file load and
\* auto-map replace the whole table: afterwards the table is the parsed
\* object, or the auto-mapper's result, whatever it held before.
C14_SingleKeyOverwrite ==
    [][/\ \A sourceBone \in DOMAIN mappingTable : \A newTargetBone \in targetBoneOptions :
             handleMappingChange(sourceBone, newTargetBone)
                => /\ DOMAIN mappingTable' = DOMAIN mappingTable
                   /\ mappingTable'[sourceBone] = newTargetBone
                   /\ \A k \in DOMAIN mappingTable \ {sourceBone} :
                         mappingTable'[k] = mappingTable[k]
       /\ \A file \in ScanMappingFiles :
             (readerOnload(file) /\ JSONparse(file.text).ok)
                => /\ DOMAIN mappingTable' = DOMAIN JSONparse(file.text).value
                   /\ \A k \in DOMAIN mappingTable' :
                         mappingTable'[k] = JSONparse(file.text).value[k]
       /\ \A names \in ScanSourceLists :
             (mappingTable' # mappingTable /\ onAutoMapBones(names))
                => /\ DOMAIN mappingTable' = elements(names)
                   /\ mappingTable' = autoMapBones(names, baseSkeleton).mapping]_vars

\* One row of the default table has been set to unmapped and the other row
\* still holds its default: no file and no auto-map yields this table.
C14_Witness ==
    /\ DOMAIN mappingTable = {BoneA, BoneB}
    /\ mappingTable[BoneA] = BoneA
    /\ mappingTable[BoneB] = EmptyString
    /\ readers = [f \in Files |-> 0]


----------------------------------------------------------------------------
(* Retention and the fallback branch of autoMapBones, checked under         *)
(* SpecAutoMap.                                                             *)

\* some retained pair joins source s and target t
retainedPair(s, t) ==
    \E i \in 1..Len(autoMapped.allPairs) :
        autoMapped.allPairs[i].source = s /\ autoMapped.allPairs[i].target = t

\* target t was committed to a source other than s
takenByAnother(s, t) ==
    \E i \in 1..Len(autoMapped.committed) :
        autoMapped.committed[i].target = t /\ autoMapped.committed[i].source # s

\* C23: a source x target pair is retained exactly when the two sides are not
\* Left against Right; every retained pair scores at least 25, so the
\* threshold of 1 discards nothing beyond the side veto; and a source bone is
\* left to the fallback only when every side-compatible target has been
\* taken by another source.
C23_RetainedIffNotVetoed ==
    autoMapDone =>
        /\ \A s \in sourceNames : \A t \in targetNames :
              retainedPair(s, t) <=> ~oppositeSides(s, t)
        /\ \A i \in 1..Len(autoMapped.allPairs) : autoMapped.allPairs[i].score >= 25
        /\ \A s \in sourceNames \ autoMapped.mappedSources :
              \A t \in targetNames : ~oppositeSides(s, t) => takenByAnother(s, t)

\* The call has returned with a retained pair that scores exactly 25, one
\* Center bone without keywords against a sided bone, and with a source left
\* to the fallback although a side-compatible target exists.
C23_Witness ==
    /\ autoMapDone
    /\ \E i \in 1..Len(autoMapped.allPairs) : autoMapped.allPairs[i].score = 25
    /\ \E s \in sourceNames \ autoMapped.mappedSources :
          \E t \in targetNames : ~oppositeSides(s, t)

\* C24: the 'identical name exists and is unused' branch of the fallback is
\* never taken: when a source bone is unmapped after the greedy walk, a target
\* bone of the identical name has already been used, and the fallback adds
\* no name to the used-target set.
C24_IdenticalBranchNeverTaken ==
    autoMapDone =>
        /\ autoMapped.identical = {}
        /\ autoMapped.usedTargets = autoMapped.greedyTargets
        /\ \A s \in sourceNames \ autoMapped.mappedSources :
              s \in targetNames => s \in autoMapped.greedyTargets

\* The call has returned with a source bone left to the fallback while the
\* skeleton has a bone of that very name.
C24_Witness ==
    /\ autoMapDone
    /\ \E s \in sourceNames \ autoMapped.mappedSources : s \in targetNames


----------------------------------------------------------------------------
(* Properties of useLogger, checked under SpecLogger. *)

\* C21: after any sequence of addLog calls the log holds at most 100 entries,
\* newest first, and they are exactly the most recent min(n, 100) messages
\* logged.
C21_LogKeepsNewestHundred ==
    LET n == Len(logHistory)
    IN  /\ Len(logs) <= 100
        /\ Len(logs) = (IF n < 100 THEN n ELSE 100)
        /\ \A i \in 1..Len(logs) : logs[i].message = logHistory[n - i + 1]
        /\ \A i \in 1..(Len(logs) - 1) : logs[i].id > logs[i + 1].id

\* More than 100 messages have been logged, the last of them by calls
\* followed here, and the newest and the oldest message kept differ.
C21_Witness ==
    /\ Len(logHistory) > 101
    /\ logCalls >= 2
    /\ Len(logs) = 100
    /\ logs[1].message # logs[100].message
    /\ logs[1].message # logs[2].message


----------------------------------------------------------------------------
(* Properties of the VisualMapper, checked under SpecMapper. *)

\* the highlighter shows the bone this name stands for in these bones
highlights(hl, bones, name, attachable) ==
    LET bone == findHighlighted(bones, name)
    IN  IF boneFound(bone) /\ attachable
        THEN hl.enabled /\ hl.bone = bone
        ELSE ~hl.enabled

HighlightsFollowProps ==
    /\ highlights(targetHl, VmBones(vmProps.baseSkeleton),
                  vmProps.highlightedTargetBoneName, vmProps.meshWithSkeleton)
    /\ highlights(sourceHl, VmBones(vmProps.sourceSkeleton),
                  vmProps.highlightedSourceBoneName, TRUE)

\* C22: while the VisualMapper stays mounted with unchanged skeletons, after
\* every render frame the target (resp. source) highlighter is attached to
\* the bone named by the current highlightedTargetBoneName (resp.
\* highlightedSourceBoneName) prop, and is disabled when the current prop
\* names no bone.
C22_FrameFollowsCurrentProps == vmChanges.framed => HighlightsFollowProps


----------------------------------------------------------------------------
(* Properties of the first-person test mode. *)

\* C25: in test mode, whenever the player state is to_crouch it eventually
\* becomes crouching, and whenever it is to_stand it eventually becomes
\* standing, for every assignment of animation links and every history of
\* crouch toggles, given that frames keep being rendered and every started
\* animation ends. Checked under SpecTestFair.
C25_TransitionsComplete ==
    /\ (test.playerState = "to_crouch") ~> (test.playerState = "crouching")
    /\ (test.playerState = "to_stand") ~> (test.playerState = "standing")

leavesRestState ==
    /\ test.playerState \in {"standing", "crouching"}
    /\ test'.playerState # test.playerState

\* C26: the crouch toggle is edge-triggered. The player state leaves standing
\* or crouching only in a frame in which C is down and was up when the
\* previous frame was rendered, so holding C never toggles twice; and a frame
\* that starts in to_crouch or to_stand leaves the state as it is, whatever
\* the C key does. Checked under SpecTest.
C26_CrouchToggleIsEdgeTriggered ==
    [][/\ leavesRestState =>
            /\ \E turn \in Turns : onBeforeRender(turn)
            /\ inputMap["c"]
            /\ ~prevFrame.cIsDown
       /\ (test.playerState \in {"to_crouch", "to_stand"}
            /\ \E turn \in Turns : onBeforeRender(turn))
           => test'.playerState = test.playerState]_vars

\* C has been held through a toggle and a further frame: the state toggled
\* once, reached crouching, and stays there while C is still down.
C26_Witness ==
    /\ test.active
    /\ test.playerState = "crouching"
    /\ inputMap["c"]
    /\ test.cWasDown
    /\ prevFrame.cIsDown
    /\ test.currentAnim # 0


----------------------------------------------------------------------------
(* Properties of the App handlers, checked under SpecApp. *)

\* the exporter received a renamed group for this action that carries the
\* tracks and the play range of the group the action is linked to
exportedFor(action) ==
    LET original == exported.retargetedGroups[
                        findGroup(exported.retargetedGroups,
                                  exported.animationLinks[action].value)]
    IN  \E g \in exported.animationGroups :
            /\ "meta" \notin DOMAIN g
            /\ g.name = toLowerCase(actionChars[action])
            /\ g.targetedAnimations = original.targetedAnimations
            /\ g.from = original.from
            /\ g.to = original.to

linksExistingGroup(links, groups, action) ==
    /\ truthy(links[action])
    /\ findGroup(groups, links[action].value) # 0

\* C27: handleExport passes to the exporter, for every player action whose
\* animation link names an existing retargeted group, an animation group
\* named with the lower-cased action name that carries that group's tracks
\* and play range, also when two actions are linked to the same animation.
C27_EveryLinkedActionExported ==
    exported.called =>
        \A action \in PlayerAction :
            linksExistingGroup(exported.animationLinks, exported.retargetedGroups, action)
                => exportedFor(action)

\* C28: after any sequence of base-model loads, animation scans, prunes,
\* selection toggles and link edits, every non-null value in animationLinks
\* is the name of a group currently present in retargetedGroups.
C28_LinksNamePresentGroups ==
    \A action \in PlayerAction :
        truthy(animationLinks[action])
            => findGroup(retargetedGroups, animationLinks[action].value) # 0

\* C29: for any interleaving of loadBase calls, once all calls have completed
\* the only undisposed base-model meshes in the scene are those held in the
\* current baseMeshes state.
C29_OnlyCurrentBaseMeshesRemain ==
    loads.awaiting = {} => sceneMeshes = elements(baseMeshes)

====
